---- MODULE Spec2Model ----
(***************************************************************************)
(* Validator system smart contract (validatorSC) of elrond-go.             *)
(*                                                                         *)
(* One owner address stakes, unstakes and unbonds against the contract;    *)
(* the end-of-epoch address pauses and unpauses; the host delivers epoch   *)
(* notifications and advances the block nonce.  The Staking Registry is    *)
(* the sibling contract reached through executeOnStakingSC: its per-key    *)
(* status is kept in `registry` and every sub-call may succeed or fail.    *)
(*                                                                         *)
(* Every handler is a pure operator over the current state that returns    *)
(* the return code, the new storage and registry, the amount transferred   *)
(* to the caller, the sub-calls issued and the finish stream.  An action   *)
(* of the machine is one Execute call: it applies the handler and records  *)
(* the call in lastCall; ReturnToHost ends the call.                       *)
(*                                                                         *)
(* SpecConcurrent looks at the calls as they overlap in time: the threads  *)
(* that hold the read lock of mutExecution inside Execute, SetNewGasCost   *)
(* under the write lock, and EpochConfirmed storing the three flags.       *)
(*                                                                         *)
(* Two peripheral components of the repository have their own state and    *)
(* their own specifications: the hardfork storer (Write and                *)
(* FinishedIdentifier under its mutex, SpecStorer) and the ESDT            *)
(* freeze / un-freeze / wipe built-in function (SpecESDT).                 *)
(***************************************************************************)
EXTENDS Integers, Sequences, FiniteSets, TLC

\* ---------------------------------------------------------------- bounds
MaxNonce == 2
MaxCalls == 4
MaxTotalStake == 4
MaxUnstakedEntries == 2
MaxAmount == 4
MaxKeysPerCall == 2
MaxCleanKeys == 3
MaxPendingKeys == 2

\* --------------------------------------------------- configuration values
NodePrice == 2
MinUnstakeTokensValue == 2
UnBondPeriod == 1
EnableStakingEpoch == 1
StakingV2Epoch == 2
EnableDoubleKeyEpoch == 2
GasUnit == 1
UnJailPrice == 1

Keys == {"k1", "k2"}
Epochs == 0 .. 2
Owner == "A"
EndOfEpochAddress == "E"
ValidatorSCAddress == "V"
Callers == {Owner, EndOfEpochAddress}
OtherRewardAddress == "B"

\* return codes of vmcommon
Ok == "Ok"
UserError == "UserError"
OutOfGas == "OutOfGas"
OutOfFunds == "OutOfFunds"

\* per-key codes written to the finish stream
invalidKey == 1
failed == 2
waiting == 3

VARIABLES
    flagEnableStaking,  \* validatorSC.flagEnableStaking
    flagEnableTopUp,    \* validatorSC.flagEnableTopUp
    flagDoubleKey,      \* validatorSC.flagDoubleKey
    epoch,              \* BlockChainHook().CurrentEpoch()
    nonce,              \* BlockChainHook().CurrentNonce()
    ownerIsSC,          \* core.IsSmartContractAddress(owner)
    storage,            \* eei storage under the owner address: <<>> or <<record>>
    pauseByte,          \* eei storage under unStakeUnBondPause: <<>>, <<0>> or <<1>>
    unJailFunds,        \* eei storage under unJailFunds, empty read as 0
    registry,           \* Staking Registry: key -> <<>> or <<staked data>>
    sumStaked,          \* sum of the call values of the Ok stake calls
    sumTransferred,     \* sum of the amounts transferred to the owner
    numCalls,           \* the number of calls that returned Ok so far
    pc,                 \* "idle" or "returned"
    lastCall,           \* the call that has just returned
    prevUnBondTokens,   \* <<the Ok unBondTokens call>> while no block, epoch or
                        \* other call has followed it, else <<>>
    prevClaim,          \* <<the amount the Ok claim call transferred>> while no
                        \* block, epoch or other call has followed it, else <<>>
    gasCost,            \* validatorSC.gasCost: the cost of one unit of work
    mutExecution,       \* validatorSC.mutExecution: the readers and the writer
    executing,          \* each thread's position in its Execute call
    settingGasCost,     \* the position of the SetNewGasCost call
    confirming,         \* the position of the EpochConfirmed call
    hsKeys,             \* hardforkStorer.keys: identifier -> the pending keys
    keysStore,          \* hardforkStorer.keysStore: identifier -> <<>> or <<buffer>>
    keyValue,           \* hardforkStorer.keyValue: key -> <<>> or <<value>>
    hsMut,              \* hardforkStorer.mut: <<>> or <<the thread that holds it>>
    storing,            \* each thread's position in its call of the storer
    sincePrevious,      \* identifier -> the Write calls that took the lock since
                        \* the previous FinishedIdentifier call returned
    sinceReleased,      \* identifier -> the Write calls that took the lock since
                        \* the pending keys were last deleted
    esdtData,           \* the data trie of the destination account: token ->
                        \* <<>> or <<token data>>
    lastToggle,         \* token -> the last freeze / un-freeze call that returned Ok
    lastBuiltin         \* the last call of the freeze / wipe built-in function

vars == <<flagEnableStaking, flagEnableTopUp, flagDoubleKey, epoch, nonce, ownerIsSC,
          storage, pauseByte, unJailFunds, registry, sumStaked, sumTransferred, numCalls,
          pc, lastCall, prevUnBondTokens, prevClaim,
          gasCost, mutExecution, executing, settingGasCost, confirming,
          hsKeys, keysStore, keyValue, hsMut, storing, sincePrevious, sinceReleased,
          esdtData, lastToggle, lastBuiltin>>

\* the state of the lock, of the gas-cost table and of the calls that overlap
lockVars == <<gasCost, mutExecution, executing, settingGasCost, confirming>>

\* the state of the hardfork storer and of the ESDT built-in function
storerVars == <<hsKeys, keysStore, keyValue, hsMut, storing, sincePrevious, sinceReleased>>
esdtVars == <<esdtData, lastToggle, lastBuiltin>>

\* ---------------------------------------------------------------- helpers
RECURSIVE SumValues(_)
SumValues(info) ==
    IF info = <<>> THEN 0 ELSE Head(info).UnstakedValue + SumValues(Tail(info))

Contains(seq, x) == \E i \in 1 .. Len(seq) : seq[i] = x

SeqsUpTo(S, n) == UNION {[1 .. k -> S] : k \in 0 .. n}

Min(a, b) == IF a < b THEN a ELSE b

\* ------------------------------------------------------ registration store
\* MaxStakePerNode and Epoch are written by stake and read by no handler: the
\* record of the model leaves them out
EmptyRegistrationData ==
    [RewardAddress   |-> "",
     TotalStakeValue |-> 0,
     LockedStake     |-> 0,
     TotalUnstaked   |-> 0,
     NumRegistered   |-> 0,
     BlsPubKeys      |-> <<>>,
     UnstakedInfo    |-> <<>>]

getOrCreateRegistrationData(st) ==
    IF Len(st) = 0 THEN EmptyRegistrationData ELSE st[1]

saveRegistrationData(rd) == <<rd>>

verifyBLSPublicKeys(rd, arguments) ==
    \A i \in 1 .. Len(arguments) : Contains(rd.BlsPubKeys, arguments[i])

isUnStakeUnBondPaused(pb) ==
    IF Len(pb) = 0 THEN FALSE ELSE pb[1] = 1

\* -------------------------------------------------------- Staking Registry
DefaultStakedData == [Staked |-> FALSE, Waiting |-> FALSE, UnStakedNonce |-> 0]

getStakedData(reg, key) ==
    IF Len(reg[key]) = 0 THEN DefaultStakedData ELSE reg[key][1]

\* get@key: a non-empty first return datum means the key is already registered
isKeyRegistered(reg, key) == Len(reg[key]) > 0

registryRegister(reg, key) ==
    [reg EXCEPT ![key] = <<getStakedData(reg, key)>>]

registryStake(reg, key, answer) ==
    [reg EXCEPT ![key] =
        <<IF answer = "waiting"
          THEN [getStakedData(reg, key) EXCEPT !.Waiting = TRUE]
          ELSE [getStakedData(reg, key) EXCEPT !.Staked = TRUE]>>]

registryUnStake(reg, key, currentNonce) ==
    [reg EXCEPT ![key] =
        <<[Staked |-> FALSE, Waiting |-> FALSE, UnStakedNonce |-> currentNonce]>>]

registryUnBond(reg, key) == [reg EXCEPT ![key] = <<>>]

\* the result of a handler: return code, the storage and the registry it
\* leaves, the amount transferred to the caller, the sub-calls issued, the
\* finish channel, the record as it was when SetStorage(caller, nil)
\* removed it, and the amount added to unJailFunds
Result(ret, st, reg, transfer, calls, finish) ==
    [ret |-> ret, storage |-> st, registry |-> reg, transfer |-> transfer,
     calls |-> calls, finish |-> finish, deleted |-> <<>>, banked |-> 0]

Deleting(res, rd) == [res EXCEPT !.deleted = <<rd>>]

\* a handler that returns before touching storage, the registry or funds
Reject(ret) == Result(ret, storage, registry, 0, <<>>, <<>>)

\* ------------------------------------------------------------ unBond family
RECURSIVE unBondNodesFromStakingSC(_, _, _)
unBondNodesFromStakingSC(blsKeys, ans, reg) ==
    IF blsKeys = <<>>
    THEN [keys |-> <<>>, registry |-> reg, calls |-> <<>>, finish |-> <<>>]
    ELSE LET blsKey == Head(blsKeys)
             good == Head(ans) = "ok"
             rest == unBondNodesFromStakingSC(Tail(blsKeys), Tail(ans),
                         IF good THEN registryUnBond(reg, blsKey) ELSE reg)
         IN [keys     |-> (IF good THEN <<blsKey>> ELSE <<>>) \o rest.keys,
             registry |-> rest.registry,
             calls    |-> <<<<"unBond", blsKey>>>> \o rest.calls,
             finish   |-> (IF good THEN <<>> ELSE <<<<blsKey, failed>>>>) \o rest.finish]

\* deleteOneKey cutting the list at the unbonded key instead of moving the
\* last key into its place
deleteFromKey(blsPubKeys, unBonded) ==
    IF ~Contains(blsPubKeys, unBonded)
    THEN blsPubKeys
    ELSE LET i == CHOOSE j \in 1 .. Len(blsPubKeys) :
                      /\ blsPubKeys[j] = unBonded
                      /\ \A h \in 1 .. j - 1 : blsPubKeys[h] # unBonded
         IN SubSeq(blsPubKeys, 1, i - 1)

\* the first registered key equal to unBonded is overwritten by the last key
\* and the list loses its last element
deleteOneKey(blsPubKeys, unBonded) ==
    IF ~Contains(blsPubKeys, unBonded)
    THEN blsPubKeys
    ELSE LET i == CHOOSE j \in 1 .. Len(blsPubKeys) :
                      /\ blsPubKeys[j] = unBonded
                      /\ \A h \in 1 .. j - 1 : blsPubKeys[h] # unBonded
             lastIndex == Len(blsPubKeys)
         IN SubSeq([blsPubKeys EXCEPT ![i] = blsPubKeys[lastIndex]], 1, lastIndex - 1)

RECURSIVE deleteUnBondedKeys(_, _)
deleteUnBondedKeys(blsPubKeys, unBondedKeys) ==
    IF unBondedKeys = <<>>
    THEN blsPubKeys
    ELSE deleteUnBondedKeys(deleteOneKey(blsPubKeys, Head(unBondedKeys)), Tail(unBondedKeys))

\* currentNonce - UnstakedNonce >= unBondPeriod on uint64: a nonce behind the
\* entry's nonce wraps to a value far above the period
canUnbond(currentNonce, unstakedNonce) ==
    IF currentNonce >= unstakedNonce
    THEN currentNonce - unstakedNonce >= UnBondPeriod
    ELSE TRUE

\* the scan without the cap of the accumulator at the ceiling
RECURSIVE scanUnstakedInfoUncapped(_, _, _, _, _)
scanUnstakedInfoUncapped(info, i, total, valueToUnBond, currentNonce) ==
    IF i > Len(info)
    THEN [total |-> total, index |-> i - 1, splitValue |-> 0, splitNonce |-> 0]
    ELSE IF ~canUnbond(currentNonce, info[i].UnstakedNonce)
    THEN [total |-> total, index |-> i - 1, splitValue |-> 0, splitNonce |-> 0]
    ELSE LET sum == total + info[i].UnstakedValue
         IN IF valueToUnBond > 0 /\ sum >= valueToUnBond
            THEN [total |-> sum, index |-> i,
                  splitValue |-> sum - valueToUnBond,
                  splitNonce |-> info[i].UnstakedNonce]
            ELSE scanUnstakedInfoUncapped(info, i + 1, sum, valueToUnBond, currentNonce)

\* the scan of unBondTokensFromRegistrationData: i is the entry looked at,
\* total the amount accumulated so far
RECURSIVE scanUnstakedInfo(_, _, _, _, _)
scanUnstakedInfo(info, i, total, valueToUnBond, currentNonce) ==
    IF i > Len(info)
    THEN [total |-> total, index |-> i - 1, splitValue |-> 0, splitNonce |-> 0]
    ELSE IF ~canUnbond(currentNonce, info[i].UnstakedNonce)
    THEN [total |-> total, index |-> i - 1, splitValue |-> 0, splitNonce |-> 0]
    ELSE LET sum == total + info[i].UnstakedValue
         IN IF valueToUnBond > 0 /\ sum >= valueToUnBond
            THEN [total |-> valueToUnBond, index |-> i,
                  splitValue |-> sum - valueToUnBond,
                  splitNonce |-> info[i].UnstakedNonce]
            ELSE scanUnstakedInfo(info, i + 1, sum, valueToUnBond, currentNonce)

\* unBondTokensFromRegistrationData leaving a split entry at its full value
unBondTokensKeepingSplitEntry(rd, valueToUnBond, currentNonce) ==
    LET info == rd.UnstakedInfo
        sc == scanUnstakedInfo(info, 1, 0, valueToUnBond, currentNonce)
        index == IF sc.splitValue > 0 THEN sc.index - 1 ELSE sc.index
        rd2 == [rd EXCEPT !.UnstakedInfo = SubSeq(info, index + 1, Len(info)),
                          !.TotalUnstaked = @ - sc.total]
    IN IF rd2.TotalUnstaked < 0
       THEN [ret |-> UserError, rd |-> rd2, total |-> 0]
       ELSE [ret |-> Ok, rd |-> rd2, total |-> sc.total]

\* unBondTokensFromRegistrationData giving a split entry the current nonce
unBondTokensRestampingSplit(rd, valueToUnBond, currentNonce) ==
    LET info == rd.UnstakedInfo
        sc == scanUnstakedInfo(info, 1, 0, valueToUnBond, currentNonce)
        index == IF sc.splitValue > 0 THEN sc.index - 1 ELSE sc.index
        info2 == IF sc.splitValue > 0
                 THEN [info EXCEPT ![sc.index] =
                          [UnstakedNonce |-> currentNonce, UnstakedValue |-> sc.splitValue]]
                 ELSE info
        rd2 == [rd EXCEPT !.UnstakedInfo = SubSeq(info2, index + 1, Len(info2)),
                          !.TotalUnstaked = @ - sc.total]
    IN IF rd2.TotalUnstaked < 0
       THEN [ret |-> UserError, rd |-> rd2, total |-> 0]
       ELSE [ret |-> Ok, rd |-> rd2, total |-> sc.total]

unBondTokensFromRegistrationData(rd, valueToUnBond, currentNonce) ==
    LET info == rd.UnstakedInfo
        sc == scanUnstakedInfo(info, 1, 0, valueToUnBond, currentNonce)
        index == IF sc.splitValue > 0 THEN sc.index - 1 ELSE sc.index
        info2 == IF sc.splitValue > 0
                 THEN [info EXCEPT ![sc.index] =
                          [UnstakedNonce |-> sc.splitNonce, UnstakedValue |-> sc.splitValue]]
                 ELSE info
        rd2 == [rd EXCEPT !.UnstakedInfo = SubSeq(info2, index + 1, Len(info2)),
                          !.TotalUnstaked = @ - sc.total]
    IN IF rd2.TotalUnstaked < 0
       THEN [ret |-> UserError, rd |-> rd2, total |-> 0]
       ELSE [ret |-> Ok, rd |-> rd2, total |-> sc.total]

\* updateRegistrationDataAfterUnBond without the LockedStake.Mul line
updateRegistrationDataKeepingLocked(rd, unBondedKeys, st) ==
    IF rd.NumRegistered < Len(unBondedKeys)
    THEN [ret |-> UserError, storage |-> st, deleted |-> <<>>]
    ELSE LET rd2 == [rd EXCEPT !.NumRegistered = @ - Len(unBondedKeys)]
         IN IF rd2.TotalStakeValue = 0
            THEN [ret |-> Ok, storage |-> <<>>, deleted |-> <<rd2>>]
            ELSE [ret |-> Ok,
                  storage |-> saveRegistrationData(
                      [rd2 EXCEPT !.BlsPubKeys = deleteUnBondedKeys(@, unBondedKeys)]),
                  deleted |-> <<>>]

updateRegistrationDataAfterUnBond(rd, unBondedKeys, st) ==
    IF rd.NumRegistered < Len(unBondedKeys)
    THEN [ret |-> UserError, storage |-> st, deleted |-> <<>>]
    ELSE LET numRegistered == rd.NumRegistered - Len(unBondedKeys)
             rd2 == [rd EXCEPT !.NumRegistered = numRegistered,
                               !.LockedStake = NodePrice * numRegistered]
         IN IF rd2.TotalStakeValue = 0
            THEN [ret |-> Ok, storage |-> <<>>, deleted |-> <<rd2>>]
            ELSE [ret |-> Ok,
                  storage |-> saveRegistrationData(
                      [rd2 EXCEPT !.BlsPubKeys = deleteUnBondedKeys(@, unBondedKeys)]),
                  deleted |-> <<>>]

checkUnBondArguments(in) ==
    IF in.callValue # 0 THEN UserError
    ELSE IF Len(in.keys) = 0 THEN UserError
    ELSE IF ~flagEnableStaking THEN UserError
    ELSE IF ~verifyBLSPublicKeys(getOrCreateRegistrationData(storage), in.keys) THEN UserError
    ELSE IF in.gas < GasUnit * Len(in.keys) THEN OutOfGas
    ELSE Ok

\* unBondV1 subtracting totalUnBond from LockedStake only
unBondV1KeepingTotalStake(in) ==
    IF checkUnBondArguments(in) # Ok
    THEN Reject(checkUnBondArguments(in))
    ELSE LET rd == getOrCreateRegistrationData(storage)
             ub == unBondNodesFromStakingSC(in.keys, in.ans, registry)
             totalUnBond == NodePrice * Len(ub.keys)
             stop == Result(UserError, storage, ub.registry, 0, ub.calls, ub.finish)
             rd2 == [rd EXCEPT !.NumRegistered = @ - Len(ub.keys),
                               !.LockedStake = @ - totalUnBond]
         IN IF rd.LockedStake < totalUnBond THEN stop
            ELSE IF rd.NumRegistered < Len(ub.keys) THEN stop
            ELSE IF rd2.TotalStakeValue < 0 THEN stop
            ELSE IF rd2.LockedStake = 0 /\ rd2.TotalStakeValue = 0
            THEN Deleting(Result(Ok, <<>>, ub.registry, totalUnBond, ub.calls, ub.finish),
                          rd2)
            ELSE Result(Ok,
                        saveRegistrationData(
                            [rd2 EXCEPT !.BlsPubKeys = deleteUnBondedKeys(@, ub.keys)]),
                        ub.registry, totalUnBond, ub.calls, ub.finish)

unBondV1(in) ==
    IF checkUnBondArguments(in) # Ok
    THEN Reject(checkUnBondArguments(in))
    ELSE LET rd == getOrCreateRegistrationData(storage)
             ub == unBondNodesFromStakingSC(in.keys, in.ans, registry)
             totalUnBond == NodePrice * Len(ub.keys)
             stop == Result(UserError, storage, ub.registry, 0, ub.calls, ub.finish)
             rd2 == [rd EXCEPT !.NumRegistered = @ - Len(ub.keys),
                               !.LockedStake = @ - totalUnBond,
                               !.TotalStakeValue = @ - totalUnBond]
         IN IF rd.LockedStake < totalUnBond THEN stop
            ELSE IF rd.NumRegistered < Len(ub.keys) THEN stop
            ELSE IF rd2.TotalStakeValue < 0 THEN stop
            ELSE IF rd2.LockedStake = 0 /\ rd2.TotalStakeValue = 0
            THEN Deleting(Result(Ok, <<>>, ub.registry, totalUnBond, ub.calls, ub.finish),
                          rd2)
            ELSE Result(Ok,
                        saveRegistrationData(
                            [rd2 EXCEPT !.BlsPubKeys = deleteUnBondedKeys(@, ub.keys)]),
                        ub.registry, totalUnBond, ub.calls, ub.finish)

unBond(in) ==
    IF ~flagEnableTopUp THEN unBondV1(in)
    ELSE IF isUnStakeUnBondPaused(pauseByte) THEN Reject(UserError)
    ELSE IF checkUnBondArguments(in) # Ok THEN Reject(checkUnBondArguments(in))
    ELSE LET rd == getOrCreateRegistrationData(storage)
             ub == unBondNodesFromStakingSC(in.keys, in.ans, registry)
             tk == unBondTokensFromRegistrationData(rd, NodePrice * Len(ub.keys), nonce)
             up == updateRegistrationDataAfterUnBond(tk.rd, ub.keys, storage)
         IN IF tk.ret # Ok
            THEN Result(tk.ret, storage, ub.registry, 0, ub.calls, ub.finish)
            ELSE IF up.ret # Ok
            THEN Result(up.ret, storage, ub.registry, 0, ub.calls, ub.finish)
            ELSE [Result(Ok, up.storage, ub.registry, tk.total, ub.calls, ub.finish)
                     EXCEPT !.deleted = up.deleted]

unBondNodes(in) ==
    IF ~flagEnableTopUp THEN Reject(UserError)
    ELSE IF isUnStakeUnBondPaused(pauseByte) THEN Reject(UserError)
    ELSE IF checkUnBondArguments(in) # Ok THEN Reject(checkUnBondArguments(in))
    ELSE LET rd == getOrCreateRegistrationData(storage)
             ub == unBondNodesFromStakingSC(in.keys, in.ans, registry)
             up == updateRegistrationDataAfterUnBond(rd, ub.keys, storage)
         IN [Result(up.ret, up.storage, ub.registry, 0, ub.calls, ub.finish)
               EXCEPT !.deleted = up.deleted]

\* basicCheckForUnStakeUnBond without the test of the top-up flag
basicCheckIgnoringTopUp(in) ==
    IF in.callValue # 0 THEN UserError
    ELSE IF getOrCreateRegistrationData(storage).RewardAddress = "" THEN UserError
    ELSE Ok

\* basicCheckForUnStakeUnBond: the return code of the preflight
basicCheckForUnStakeUnBond(in) ==
    IF ~flagEnableTopUp THEN UserError
    ELSE IF in.callValue # 0 THEN UserError
    ELSE IF getOrCreateRegistrationData(storage).RewardAddress = "" THEN UserError
    ELSE Ok

\* unBondTokens transferring without saving the record
unBondTokensWithoutSave(in) ==
    IF basicCheckForUnStakeUnBond(in) # Ok THEN Reject(UserError)
    ELSE IF isUnStakeUnBondPaused(pauseByte) THEN Reject(UserError)
    ELSE IF in.gas < GasUnit THEN Reject(OutOfGas)
    ELSE IF Len(in.args) > 1 THEN Reject(UserError)
    ELSE IF Len(in.args) = 1 /\ in.args[1] <= 0 THEN Reject(UserError)
    ELSE LET rd == getOrCreateRegistrationData(storage)
             valueToUnBond == IF Len(in.args) = 1 THEN in.args[1] ELSE 0
             tk == unBondTokensFromRegistrationData(rd, valueToUnBond, nonce)
         IN IF tk.ret # Ok THEN Reject(tk.ret)
            ELSE IF tk.total = 0 THEN Reject(Ok)
            ELSE Result(Ok, storage, registry, tk.total, <<>>, <<>>)

unBondTokens(in) ==
    IF basicCheckForUnStakeUnBond(in) # Ok THEN Reject(UserError)
    ELSE IF isUnStakeUnBondPaused(pauseByte) THEN Reject(UserError)
    ELSE IF in.gas < GasUnit THEN Reject(OutOfGas)
    ELSE IF Len(in.args) > 1 THEN Reject(UserError)
    ELSE IF Len(in.args) = 1 /\ in.args[1] <= 0 THEN Reject(UserError)
    ELSE LET rd == getOrCreateRegistrationData(storage)
             valueToUnBond == IF Len(in.args) = 1 THEN in.args[1] ELSE 0
             tk == unBondTokensFromRegistrationData(rd, valueToUnBond, nonce)
         IN IF tk.ret # Ok THEN Reject(tk.ret)
            ELSE IF tk.total = 0 THEN Reject(Ok)
            ELSE Result(Ok, saveRegistrationData(tk.rd), registry, tk.total, <<>>, <<>>)

\* ----------------------------------------------------------- unStake family
basicChecksForUnStakeNodes(in) ==
    IF in.callValue # 0 THEN UserError
    ELSE IF Len(in.keys) = 0 THEN UserError
    ELSE IF ~flagEnableStaking THEN UserError
    ELSE IF in.gas < GasUnit * Len(in.keys) THEN OutOfGas
    ELSE IF ~verifyBLSPublicKeys(getOrCreateRegistrationData(storage), in.keys) THEN UserError
    ELSE Ok

RECURSIVE unStakeNodesFromStakingSC(_, _, _, _)
unStakeNodesFromStakingSC(blsKeys, ans, reg, currentNonce) ==
    IF blsKeys = <<>>
    THEN [numSuccess |-> 0, registry |-> reg, calls |-> <<>>, finish |-> <<>>]
    ELSE LET blsKey == Head(blsKeys)
             good == Head(ans) = "ok"
             rest == unStakeNodesFromStakingSC(Tail(blsKeys), Tail(ans),
                         IF good THEN registryUnStake(reg, blsKey, currentNonce) ELSE reg,
                         currentNonce)
         IN [numSuccess |-> (IF good THEN 1 ELSE 0) + rest.numSuccess,
             registry   |-> rest.registry,
             calls      |-> <<<<"unStake", blsKey>>>> \o rest.calls,
             finish     |-> (IF good THEN <<>> ELSE <<<<blsKey, failed>>>>) \o rest.finish]

\* processUnStakeValue without the comparison against TotalStakeValue
processUnStakeValueUnchecked(rd, unStakeValue, currentNonce) ==
    IF ~(unStakeValue >= MinUnstakeTokensValue \/ unStakeValue = rd.TotalStakeValue)
    THEN [ret |-> UserError, rd |-> rd]
    ELSE [ret |-> Ok,
          rd  |-> [rd EXCEPT !.TotalStakeValue = @ - unStakeValue,
                             !.TotalUnstaked = @ + unStakeValue,
                             !.UnstakedInfo = Append(@,
                                 [UnstakedNonce |-> currentNonce,
                                  UnstakedValue |-> unStakeValue])]]

processUnStakeValue(rd, unStakeValue, currentNonce) ==
    IF ~(unStakeValue >= MinUnstakeTokensValue \/ unStakeValue = rd.TotalStakeValue)
    THEN [ret |-> UserError, rd |-> rd]
    ELSE IF unStakeValue > rd.TotalStakeValue
    THEN [ret |-> UserError, rd |-> rd]
    ELSE [ret |-> Ok,
          rd  |-> [rd EXCEPT !.TotalStakeValue = @ - unStakeValue,
                             !.TotalUnstaked = @ + unStakeValue,
                             !.UnstakedInfo = Append(@,
                                 [UnstakedNonce |-> currentNonce,
                                  UnstakedValue |-> unStakeValue])]]

unStake(in) ==
    IF isUnStakeUnBondPaused(pauseByte) THEN Reject(UserError)
    ELSE IF basicChecksForUnStakeNodes(in) # Ok THEN Reject(basicChecksForUnStakeNodes(in))
    ELSE LET rd == getOrCreateRegistrationData(storage)
             us == unStakeNodesFromStakingSC(in.keys, in.ans, registry, nonce)
             unStakeFromNodes == Min(NodePrice * us.numSuccess, rd.TotalStakeValue)
             pr == processUnStakeValue(rd, unStakeFromNodes, nonce)
         IN IF ~flagEnableTopUp
            THEN Result(Ok, storage, us.registry, 0, us.calls, us.finish)
            ELSE IF pr.ret # Ok
            THEN Result(pr.ret, storage, us.registry, 0, us.calls, us.finish)
            ELSE Result(Ok, saveRegistrationData(pr.rd), us.registry, 0, us.calls, us.finish)

unStakeNodes(in) ==
    IF ~flagEnableTopUp THEN Reject(UserError)
    ELSE IF isUnStakeUnBondPaused(pauseByte) THEN Reject(UserError)
    ELSE IF basicChecksForUnStakeNodes(in) # Ok THEN Reject(basicChecksForUnStakeNodes(in))
    ELSE LET us == unStakeNodesFromStakingSC(in.keys, in.ans, registry, nonce)
         IN Result(Ok, storage, us.registry, 0, us.calls, us.finish)

\* unStakeTokens returning Ok without saving the record
unStakeTokensWithoutSave(in) ==
    IF basicCheckForUnStakeUnBond(in) # Ok THEN Reject(UserError)
    ELSE IF isUnStakeUnBondPaused(pauseByte) THEN Reject(UserError)
    ELSE IF in.gas < GasUnit THEN Reject(OutOfGas)
    ELSE IF Len(in.args) # 1 THEN Reject(UserError)
    ELSE LET rd == getOrCreateRegistrationData(storage)
             pr == processUnStakeValue(rd, in.args[1], nonce)
         IN IF pr.ret # Ok THEN Reject(pr.ret)
            ELSE Reject(Ok)

unStakeTokens(in) ==
    IF basicCheckForUnStakeUnBond(in) # Ok THEN Reject(UserError)
    ELSE IF isUnStakeUnBondPaused(pauseByte) THEN Reject(UserError)
    ELSE IF in.gas < GasUnit THEN Reject(OutOfGas)
    ELSE IF Len(in.args) # 1 THEN Reject(UserError)
    ELSE LET rd == getOrCreateRegistrationData(storage)
             pr == processUnStakeValue(rd, in.args[1], nonce)
         IN IF pr.ret # Ok THEN Reject(pr.ret)
            ELSE Result(Ok, saveRegistrationData(pr.rd), registry, 0, <<>>, <<>>)

\* -------------------------------------------------------------------- claim
\* claim transferring without lowering TotalStakeValue
claimWithoutSave(in) ==
    IF flagEnableTopUp THEN Reject(UserError)
    ELSE IF in.callValue # 0 THEN Reject(UserError)
    ELSE IF getOrCreateRegistrationData(storage).RewardAddress = "" THEN Reject(UserError)
    ELSE IF in.gas < GasUnit THEN Reject(OutOfGas)
    ELSE LET rd == getOrCreateRegistrationData(storage)
             claimable == rd.TotalStakeValue - rd.LockedStake
         IN IF claimable <= 0 THEN Reject(Ok)
            ELSE Result(Ok, storage, registry, claimable, <<>>, <<>>)

claim(in) ==
    IF flagEnableTopUp THEN Reject(UserError)
    ELSE IF in.callValue # 0 THEN Reject(UserError)
    ELSE IF getOrCreateRegistrationData(storage).RewardAddress = "" THEN Reject(UserError)
    ELSE IF in.gas < GasUnit THEN Reject(OutOfGas)
    ELSE LET rd == getOrCreateRegistrationData(storage)
             claimable == rd.TotalStakeValue - rd.LockedStake
         IN IF claimable <= 0 THEN Reject(Ok)
            ELSE Result(Ok,
                        saveRegistrationData([rd EXCEPT !.TotalStakeValue = rd.LockedStake]),
                        registry, claimable, <<>>, <<>>)

\* ------------------------------------------------------------------- unJail
\* the unJail sub-calls: a key the Staking Registry refuses, by an error of the
\* sub-call or by a return code other than Ok, is finished as (key, failed)
\* and the loop goes on
RECURSIVE unJailOnStakingSC(_, _)
unJailOnStakingSC(blsKeys, ans) ==
    IF blsKeys = <<>>
    THEN [numFailed |-> 0, calls |-> <<>>, finish |-> <<>>]
    ELSE LET blsKey == Head(blsKeys)
             good == Head(ans) = "ok"
             rest == unJailOnStakingSC(Tail(blsKeys), Tail(ans))
         IN [numFailed |-> (IF good THEN 0 ELSE 1) + rest.numFailed,
             calls     |-> <<<<"unJail", blsKey>>>> \o rest.calls,
             finish    |-> (IF good THEN <<>> ELSE <<<<blsKey, failed>>>>) \o rest.finish]

\* unJailV1 without the comparison of the call value
unJailV1AnyValue(in) ==
    IF Len(in.keys) = 0 THEN Reject(UserError)
    ELSE IF in.gas < GasUnit * Len(in.keys) THEN Reject(OutOfGas)
    ELSE IF ~verifyBLSPublicKeys(getOrCreateRegistrationData(storage), in.keys)
    THEN Reject(UserError)
    ELSE LET uj == unJailOnStakingSC(in.keys, in.ans)
         IN Result(Ok, storage, registry, 0, uj.calls, uj.finish)

unJailV1(in) ==
    IF Len(in.keys) = 0 THEN Reject(UserError)
    ELSE IF UnJailPrice * Len(in.keys) # in.callValue THEN Reject(UserError)
    ELSE IF in.gas < GasUnit * Len(in.keys) THEN Reject(OutOfGas)
    ELSE IF ~verifyBLSPublicKeys(getOrCreateRegistrationData(storage), in.keys)
    THEN Reject(UserError)
    ELSE LET uj == unJailOnStakingSC(in.keys, in.ans)
         IN Result(Ok, storage, registry, 0, uj.calls, uj.finish)

\* unJail adding the whole call value to unJailFunds, refund or not
unJailBankingAll(in) ==
    IF ~flagEnableStaking THEN unJailV1(in)
    ELSE IF Len(in.keys) = 0 THEN Reject(UserError)
    ELSE IF UnJailPrice * Len(in.keys) # in.callValue THEN Reject(UserError)
    ELSE IF in.gas < GasUnit * Len(in.keys) THEN Reject(OutOfGas)
    ELSE IF ~verifyBLSPublicKeys(getOrCreateRegistrationData(storage), in.keys)
    THEN Reject(UserError)
    ELSE LET uj == unJailOnStakingSC(in.keys, in.ans)
             transferBack == UnJailPrice * uj.numFailed
         IN [Result(Ok, storage, registry, transferBack, uj.calls, uj.finish)
               EXCEPT !.banked = in.callValue]

unJail(in) ==
    IF ~flagEnableStaking THEN unJailV1(in)
    ELSE IF Len(in.keys) = 0 THEN Reject(UserError)
    ELSE IF UnJailPrice * Len(in.keys) # in.callValue THEN Reject(UserError)
    ELSE IF in.gas < GasUnit * Len(in.keys) THEN Reject(OutOfGas)
    ELSE IF ~verifyBLSPublicKeys(getOrCreateRegistrationData(storage), in.keys)
    THEN Reject(UserError)
    ELSE LET uj == unJailOnStakingSC(in.keys, in.ans)
             transferBack == UnJailPrice * uj.numFailed
         IN [Result(Ok, storage, registry, transferBack, uj.calls, uj.finish)
               EXCEPT !.banked = in.callValue - transferBack]

\* -------------------------------------------------------------------- admin
\* an address argument is a wallet address or the token "short", a byte string
\* whose length is not walletAddressLen
isWalletAddress(arg) == arg # "short"

changeRewardAddress(in) ==
    IF in.callValue # 0 THEN Reject(UserError)
    ELSE IF Len(in.args) < 1 THEN Reject(UserError)
    ELSE IF ~isWalletAddress(in.args[1]) THEN Reject(UserError)
    ELSE LET rd == getOrCreateRegistrationData(storage)
             st == saveRegistrationData([rd EXCEPT !.RewardAddress = in.args[1]])
             calls == <<<<"changeRewardAddress", in.args[1]>>>>
         IN IF rd.RewardAddress = "" THEN Reject(UserError)
            ELSE IF rd.RewardAddress = in.args[1] THEN Reject(UserError)
            ELSE IF in.gas < GasUnit * Len(rd.BlsPubKeys) THEN Reject(OutOfGas)
            ELSE IF in.ans = "error" THEN Result(UserError, st, registry, 0, calls, <<>>)
            ELSE IF in.ans # "ok" THEN Result(in.ans, st, registry, 0, calls, <<>>)
            ELSE Result(Ok, st, registry, 0, calls, <<>>)

\* BlsPubKeys without the earlier occurrences of a key
RECURSIVE dedupeKeepingLast(_, _)
dedupeKeepingLast(blsPubKeys, newList) ==
    IF blsPubKeys = <<>> THEN newList
    ELSE IF Contains(Tail(blsPubKeys), Head(blsPubKeys))
    THEN dedupeKeepingLast(Tail(blsPubKeys), newList)
    ELSE dedupeKeepingLast(Tail(blsPubKeys), Append(newList, Head(blsPubKeys)))

\* BlsPubKeys without the later occurrences of a key
RECURSIVE dedupe(_, _)
dedupe(blsPubKeys, newList) ==
    IF blsPubKeys = <<>> THEN newList
    ELSE IF Contains(newList, Head(blsPubKeys))
    THEN dedupe(Tail(blsPubKeys), newList)
    ELSE dedupe(Tail(blsPubKeys), Append(newList, Head(blsPubKeys)))

cleanRegisteredData(in) ==
    IF ~flagDoubleKey THEN Reject(UserError)
    ELSE IF in.gas < GasUnit THEN Reject(OutOfGas)
    ELSE IF in.callValue # 0 THEN Reject(UserError)
    ELSE IF in.numArgs # 0 THEN Reject(UserError)
    ELSE LET rd == getOrCreateRegistrationData(storage)
             newList == dedupe(rd.BlsPubKeys, <<>>)
         IN IF Len(rd.BlsPubKeys) <= 1 THEN Reject(Ok)
            ELSE IF Len(newList) = Len(rd.BlsPubKeys) THEN Reject(Ok)
            ELSE Result(Ok, saveRegistrationData([rd EXCEPT !.BlsPubKeys = newList]),
                        registry, 0, <<>>, <<>>)

\* ------------------------------------------------------------------- views
\* getTotalStakedTopUpBlsKeys finishes the top-up, the total stake and the keys
getTotalStakedTopUpBlsKeys(in) ==
    IF ~flagEnableTopUp THEN Reject(UserError)
    ELSE IF in.callValue # 0 THEN Reject(UserError)
    ELSE IF in.gas < GasUnit THEN Reject(OutOfGas)
    ELSE LET rd == getOrCreateRegistrationData(storage)
             topUp == rd.TotalStakeValue - NodePrice * rd.NumRegistered
         IN IF rd.RewardAddress = "" THEN Reject(UserError)
            ELSE IF rd.TotalStakeValue < 0 THEN Reject(UserError)
            ELSE Result(Ok, storage, registry, 0, <<>>,
                        <<topUp, rd.TotalStakeValue>> \o rd.BlsPubKeys)

\* the setOwner sub-calls of updateStakingV2 stop at the first key refused
RECURSIVE setOwnerOfBlsKeys(_, _)
setOwnerOfBlsKeys(blsKeys, ans) ==
    IF blsKeys = <<>>
    THEN [ret |-> Ok, calls |-> <<>>, finish |-> <<>>]
    ELSE IF Head(ans) # "ok"
    THEN [ret |-> UserError, calls |-> <<<<"setOwner", Head(blsKeys)>>>>,
          finish |-> <<<<Head(blsKeys), failed>>>>]
    ELSE LET rest == setOwnerOfBlsKeys(Tail(blsKeys), Tail(ans))
         IN [rest EXCEPT !.calls = <<<<"setOwner", Head(blsKeys)>>>> \o @]

\* the record stored under an address: the model stores the owner's only
registrationDataOf(address) ==
    IF address = Owner THEN getOrCreateRegistrationData(storage) ELSE EmptyRegistrationData

updateStakingV2(caller, in) ==
    IF ~flagEnableTopUp THEN Reject(UserError)
    ELSE IF caller # ValidatorSCAddress THEN Reject(UserError)
    ELSE IF Len(in.args) # 1 THEN Reject(UserError)
    ELSE IF ~isWalletAddress(in.args[1]) THEN Reject(UserError)
    ELSE IF in.callValue # 0 THEN Reject(UserError)
    ELSE LET rd == registrationDataOf(in.args[1])
             so == setOwnerOfBlsKeys(rd.BlsPubKeys, in.ans)
         IN IF rd.RewardAddress = "" THEN Reject(UserError)
            ELSE Result(so.ret, storage, registry, 0, so.calls, so.finish)

\* pauseUnStakeUnBond without the comparison of the caller
pauseByAnyCaller(caller) ==
    IF ~flagEnableTopUp THEN [ret |-> UserError, pause |-> pauseByte]
    ELSE [ret |-> Ok, pause |-> <<1>>]

\* pauseUnStakeUnBond and unPauseStakeUnBond: the return code and the pause byte
pauseUnStakeUnBond(caller) ==
    IF ~flagEnableTopUp THEN [ret |-> UserError, pause |-> pauseByte]
    ELSE IF caller # EndOfEpochAddress THEN [ret |-> UserError, pause |-> pauseByte]
    ELSE [ret |-> Ok, pause |-> <<1>>]

unPauseStakeUnBond(caller) ==
    IF ~flagEnableTopUp THEN [ret |-> UserError, pause |-> pauseByte]
    ELSE IF caller # EndOfEpochAddress THEN [ret |-> UserError, pause |-> pauseByte]
    ELSE [ret |-> Ok, pause |-> <<0>>]

\* -------------------------------------------------------------------- stake
\* a stake call carries no argument at all (hasArgs = FALSE) or maxNodes,
\* the (key, signature) pairs and the trailing optional arguments
lenArgs(in) == IF in.hasArgs THEN 1 + 2 * Len(in.pairs) + Len(in.opt) ELSE 0

isNumArgsCorrectToStake(in) == lenArgs(in) >= 2 * in.maxNodes + 1

RECURSIVE getVerifiedBLSKeysFromArgs(_)
getVerifiedBLSKeysFromArgs(pairs) ==
    IF pairs = <<>>
    THEN [blsKeys |-> <<>>, finish |-> <<>>]
    ELSE LET rest == getVerifiedBLSKeysFromArgs(Tail(pairs))
         IN IF Head(pairs).sigOk
            THEN [blsKeys |-> <<Head(pairs).key>> \o rest.blsKeys, finish |-> rest.finish]
            ELSE [blsKeys |-> rest.blsKeys,
                  finish  |-> <<<<Head(pairs).key, invalidKey>>>> \o rest.finish]

\* the keys of the argument that are not in the registered keys
RECURSIVE filterNewKeys(_, _)
filterNewKeys(registeredKeys, keysFromArgument) ==
    IF keysFromArgument = <<>> THEN <<>>
    ELSE IF Contains(registeredKeys, Head(keysFromArgument))
    THEN filterNewKeys(registeredKeys, Tail(keysFromArgument))
    ELSE <<Head(keysFromArgument)>> \o filterNewKeys(registeredKeys, Tail(keysFromArgument))

\* getNewValidKeys taking the answer of every probe as "not registered"
getNewValidKeysTrustingProbes(registeredKeys, keysFromArgument, reg, probeErr) ==
    LET newKeys == filterNewKeys(registeredKeys, keysFromArgument)
    IN [err |-> FALSE, newKeys |-> newKeys,
        calls |-> [i \in 1 .. Len(newKeys) |-> <<"get", newKeys[i]>>]]

\* getNewValidKeys: the existence probes stop at the first key that is already
\* registered in the Staking Registry, or at the first probe when probes fail
getNewValidKeys(registeredKeys, keysFromArgument, reg, probeErr) ==
    LET newKeys == filterNewKeys(registeredKeys, keysFromArgument)
        bad == {i \in 1 .. Len(newKeys) : probeErr \/ isKeyRegistered(reg, newKeys[i])}
        firstBad == CHOOSE i \in bad : \A j \in bad : i <= j
    IN IF bad = {}
       THEN [err |-> FALSE, newKeys |-> newKeys,
             calls |-> [i \in 1 .. Len(newKeys) |-> <<"get", newKeys[i]>>]]
       ELSE [err |-> TRUE, newKeys |-> <<>>,
             calls |-> [i \in 1 .. firstBad |-> <<"get", newKeys[i]>>]]

\* the register loop of registerBLSKeys over newKeys[i..]
RECURSIVE registerLoop(_, _, _, _, _)
registerLoop(newKeys, i, regAns, blsPubKeys, reg) ==
    IF i > Len(newKeys)
    THEN [status |-> "done", blsPubKeys |-> blsPubKeys, registry |-> reg,
          calls |-> <<>>, finish |-> <<>>]
    ELSE IF regAns[i] # "ok"
    THEN [status |-> regAns[i], blsPubKeys |-> blsPubKeys, registry |-> reg,
          calls |-> <<<<"register", newKeys[i]>>>>,
          finish |-> <<<<newKeys[i], failed>>>>]
    ELSE LET rest == registerLoop(newKeys, i + 1, regAns, Append(blsPubKeys, newKeys[i]),
                                  registryRegister(reg, newKeys[i]))
         IN [rest EXCEPT !.calls = <<<<"register", newKeys[i]>>>> \o @]

\* registerBLSKeys: err is TRUE when it returns an error; a host error of a
\* register sub-call returns the outer err, which is nil, with no keys
registerBLSKeys(rd, in, reg) ==
    LET vk == getVerifiedBLSKeysFromArgs(SubSeq(in.pairs, 1, in.maxNodes))
        nk == getNewValidKeys(rd.BlsPubKeys, vk.blsKeys, reg, in.ans.probeErr)
        rl == registerLoop(nk.newKeys, 1, in.ans.reg, rd.BlsPubKeys, reg)
    IN IF nk.err
       THEN [err |-> TRUE, blsKeys |-> <<>>, blsPubKeys |-> rd.BlsPubKeys, registry |-> reg,
             calls |-> nk.calls, finish |-> vk.finish]
       ELSE [err        |-> rl.status = "failed",
             blsKeys    |-> IF rl.status = "done" THEN vk.blsKeys ELSE <<>>,
             blsPubKeys |-> rl.blsPubKeys,
             registry   |-> rl.registry,
             calls      |-> nk.calls \o rl.calls,
             finish     |-> vk.finish \o rl.finish]

checkDoubleBLSKeys(blsKeys) ==
    \E i, j \in 1 .. Len(blsKeys) : i < j /\ blsKeys[i] = blsKeys[j]

\* the loop of activateStakingFor over blsKeys[i..]
\* the loop counting every key whose stake sub-call succeeds, re-staked or not
RECURSIVE activateLoopCountingAll(_, _, _, _, _, _)
activateLoopCountingAll(blsKeys, i, numRegistered, numQualified, stakeAns, reg) ==
    IF ~(numRegistered < numQualified /\ i <= Len(blsKeys))
    THEN [numRegistered |-> numRegistered, registry |-> reg, calls |-> <<>>, finish |-> <<>>]
    ELSE LET currentBLSKey == blsKeys[i]
             stakedData == getStakedData(reg, currentBLSKey)
         IN IF stakedData.Staked \/ stakedData.Waiting
            THEN activateLoopCountingAll(blsKeys, i + 1, numRegistered, numQualified,
                                         stakeAns, reg)
            ELSE IF stakeAns[i] = "failed"
            THEN LET rest == activateLoopCountingAll(blsKeys, i + 1, numRegistered,
                                                     numQualified, stakeAns, reg)
                 IN [rest EXCEPT !.calls = <<<<"stake", currentBLSKey>>>> \o @,
                                 !.finish = <<<<currentBLSKey, failed>>>> \o @]
            ELSE LET rest == activateLoopCountingAll(blsKeys, i + 1, numRegistered + 1,
                                 numQualified, stakeAns,
                                 registryStake(reg, currentBLSKey, stakeAns[i]))
                 IN [rest EXCEPT !.calls = <<<<"stake", currentBLSKey>>>> \o @,
                                 !.finish = (IF stakeAns[i] = "waiting"
                                             THEN <<<<currentBLSKey, waiting>>>>
                                             ELSE <<>>) \o @]

RECURSIVE activateLoop(_, _, _, _, _, _)
activateLoop(blsKeys, i, numRegistered, numQualified, stakeAns, reg) ==
    IF ~(numRegistered < numQualified /\ i <= Len(blsKeys))
    THEN [numRegistered |-> numRegistered, registry |-> reg, calls |-> <<>>, finish |-> <<>>]
    ELSE LET currentBLSKey == blsKeys[i]
             stakedData == getStakedData(reg, currentBLSKey)
         IN IF stakedData.Staked \/ stakedData.Waiting
            THEN activateLoop(blsKeys, i + 1, numRegistered, numQualified, stakeAns, reg)
            ELSE IF stakeAns[i] = "failed"
            THEN LET rest == activateLoop(blsKeys, i + 1, numRegistered, numQualified,
                                          stakeAns, reg)
                 IN [rest EXCEPT !.calls = <<<<"stake", currentBLSKey>>>> \o @,
                                 !.finish = <<<<currentBLSKey, failed>>>> \o @]
            ELSE LET rest == activateLoop(blsKeys, i + 1,
                                 IF stakedData.UnStakedNonce = 0
                                 THEN numRegistered + 1 ELSE numRegistered,
                                 numQualified, stakeAns,
                                 registryStake(reg, currentBLSKey, stakeAns[i]))
                 IN [rest EXCEPT !.calls = <<<<"stake", currentBLSKey>>>> \o @,
                                 !.finish = (IF stakeAns[i] = "waiting"
                                             THEN <<<<currentBLSKey, waiting>>>>
                                             ELSE <<>>) \o @]

\* activateStakingFor leaving LockedStake as it was
activateStakingForKeepingLocked(blsKeys, numQualified, rd, fixedStakeValue, stakeAns, reg) ==
    LET al == activateLoop(blsKeys, 1, rd.NumRegistered, numQualified, stakeAns, reg)
    IN [rd |-> [rd EXCEPT !.NumRegistered = al.numRegistered],
        registry |-> al.registry, calls |-> al.calls, finish |-> al.finish]

activateStakingFor(blsKeys, numQualified, rd, fixedStakeValue, stakeAns, reg) ==
    LET al == activateLoop(blsKeys, 1, rd.NumRegistered, numQualified, stakeAns, reg)
    IN [rd |-> [rd EXCEPT !.NumRegistered = al.numRegistered,
                          !.LockedStake = fixedStakeValue * al.numRegistered],
        registry |-> al.registry, calls |-> al.calls, finish |-> al.finish]

updateStakeValue(rd, caller) ==
    IF Len(rd.BlsPubKeys) = 0 /\ ~ownerIsSC
    THEN Reject(UserError)
    ELSE Result(Ok,
                saveRegistrationData(
                    IF rd.RewardAddress = "" THEN [rd EXCEPT !.RewardAddress = caller] ELSE rd),
                registry, 0, <<>>, <<>>)

\* the optional arguments applied whether or not the record is registered
RECURSIVE applyOptionalArgsAlways(_, _, _)
applyOptionalArgsAlways(rd, opt, isAlreadyRegistered) ==
    IF opt = <<>> THEN rd
    ELSE applyOptionalArgsAlways(
             IF Head(opt).isAddress
             THEN [rd EXCEPT !.RewardAddress = Head(opt).value]
             ELSE rd,
             Tail(opt), isAlreadyRegistered)

\* the trailing optional arguments of stake, from left to right
RECURSIVE applyOptionalArgs(_, _, _)
applyOptionalArgs(rd, opt, isAlreadyRegistered) ==
    IF opt = <<>> THEN rd
    ELSE applyOptionalArgs(
             IF Head(opt).isAddress
             THEN (IF ~isAlreadyRegistered
                   THEN [rd EXCEPT !.RewardAddress = Head(opt).value] ELSE rd)
             ELSE rd,
             Tail(opt), isAlreadyRegistered)

\* stake without the comparison of the registered keys against numQualified
stakeWithoutFundsCheck(in) ==
    IF in.gas < GasUnit THEN Reject(OutOfGas)
    ELSE IF ~(nonce = 0 \/ flagEnableStaking) THEN Reject(UserError)
    ELSE LET rd0 == getOrCreateRegistrationData(storage)
             rd1 == [rd0 EXCEPT !.TotalStakeValue = @ + in.callValue]
             isAlreadyRegistered == rd1.RewardAddress # ""
             rd2 == [rd1 EXCEPT !.RewardAddress = IF isAlreadyRegistered THEN @ ELSE Owner]
             rb == registerBLSKeys(rd2, in, registry)
             rd3 == [rd2 EXCEPT !.BlsPubKeys = rb.blsPubKeys]
             numQualified == rd3.TotalStakeValue \div NodePrice
             rd4 == applyOptionalArgs(rd3, in.opt, isAlreadyRegistered)
             act == activateStakingFor(rb.blsKeys, numQualified, rd4, NodePrice,
                                       in.ans.stake, rb.registry)
             stop(ret) == Result(ret, storage, rb.registry, 0, rb.calls, rb.finish)
         IN IF rd1.TotalStakeValue < NodePrice /\ ~ownerIsSC THEN Reject(UserError)
            ELSE IF lenArgs(in) = 0 THEN updateStakeValue(rd1, Owner)
            ELSE IF ~isNumArgsCorrectToStake(in) THEN Reject(UserError)
            ELSE IF in.maxNodes = 0 THEN Reject(UserError)
            ELSE IF in.gas - GasUnit < (in.maxNodes - 1) * GasUnit THEN Reject(OutOfGas)
            ELSE IF rb.err THEN stop(UserError)
            ELSE IF flagDoubleKey /\ checkDoubleBLSKeys(rb.blsKeys) THEN stop(UserError)
            ELSE Result(Ok, saveRegistrationData(act.rd), act.registry, 0,
                        rb.calls \o act.calls, rb.finish \o act.finish)

stake(in) ==
    IF in.gas < GasUnit THEN Reject(OutOfGas)
    ELSE IF ~(nonce = 0 \/ flagEnableStaking) THEN Reject(UserError)
    ELSE LET rd0 == getOrCreateRegistrationData(storage)
             rd1 == [rd0 EXCEPT !.TotalStakeValue = @ + in.callValue]
             isAlreadyRegistered == rd1.RewardAddress # ""
             rd2 == [rd1 EXCEPT !.RewardAddress = IF isAlreadyRegistered THEN @ ELSE Owner]
             rb == registerBLSKeys(rd2, in, registry)
             rd3 == [rd2 EXCEPT !.BlsPubKeys = rb.blsPubKeys]
             numQualified == rd3.TotalStakeValue \div NodePrice
             rd4 == applyOptionalArgs(rd3, in.opt, isAlreadyRegistered)
             act == activateStakingFor(rb.blsKeys, numQualified, rd4, NodePrice,
                                       in.ans.stake, rb.registry)
             stop(ret) == Result(ret, storage, rb.registry, 0, rb.calls, rb.finish)
         IN IF rd1.TotalStakeValue < NodePrice /\ ~ownerIsSC THEN Reject(UserError)
            ELSE IF lenArgs(in) = 0 THEN updateStakeValue(rd1, Owner)
            ELSE IF ~isNumArgsCorrectToStake(in) THEN Reject(UserError)
            ELSE IF in.maxNodes = 0 THEN Reject(UserError)
            ELSE IF in.gas - GasUnit < (in.maxNodes - 1) * GasUnit THEN Reject(OutOfGas)
            ELSE IF rb.err THEN stop(UserError)
            ELSE IF flagDoubleKey /\ checkDoubleBLSKeys(rb.blsKeys) THEN stop(UserError)
            ELSE IF Len(rd3.BlsPubKeys) > numQualified THEN stop(OutOfFunds)
            ELSE Result(Ok, saveRegistrationData(act.rd), act.registry, 0,
                        rb.calls \o act.calls, rb.finish \o act.finish)

\* ------------------------------------------------------------------- inputs
\* Every handler is called with well-formed inputs (no call value where none is
\* taken, enough gas) under every answer of the Staking Registry, and with a few
\* malformed ones: a call value, too little gas, a wrong number of arguments.
MaxGas == MaxKeysPerCall * GasUnit
\* the key lists of a call: no key, one key, two different keys, one key twice
KeyLists ==
    {keys \in SeqsUpTo(Keys, MaxKeysPerCall) :
        \A i \in 2 .. Len(keys) : keys[1] = "k1" /\ keys[i] \in {"k1", "k2"}}
AllOk(n) == [i \in 1 .. n |-> "ok"]
FirstKeys(n) == [i \in 1 .. n |-> IF i = 1 THEN "k1" ELSE "k2"]

KeyCall(callValue, gas, keys, ans) ==
    [callValue |-> callValue, gas |-> gas, keys |-> keys, ans |-> ans]

\* key lists under every answer of the registry; a repeated key is answered Ok
KeyAnswers(keys) ==
    IF Len(keys) = 2 /\ keys[1] = keys[2] THEN {AllOk(2)}
    ELSE [1 .. Len(keys) -> {"ok", "failed"}]

KeyCallInputs ==
    UNION {{KeyCall(0, MaxGas, keys, ans) : ans \in KeyAnswers(keys)} : keys \in KeyLists}
    \cup {KeyCall(1, MaxGas, FirstKeys(1), AllOk(1))}
    \cup {KeyCall(0, gas, FirstKeys(n), AllOk(n)) :
              gas \in 0 .. MaxGas - 1, n \in 1 .. MaxKeysPerCall}

\* unJail calls: every key list under every answer of the registry with every
\* call value up to the price of the longest list, and calls short of gas
UnJailInputs ==
    UNION {{KeyCall(v, MaxGas, keys, ans) :
               v \in 0 .. MaxKeysPerCall * UnJailPrice, ans \in KeyAnswers(keys)} :
              keys \in KeyLists}
    \cup {KeyCall(n * UnJailPrice, gas, FirstKeys(n), AllOk(n)) :
              gas \in 0 .. MaxGas - 1, n \in 1 .. MaxKeysPerCall}

TokenCall(callValue, gas, args) == [callValue |-> callValue, gas |-> gas, args |-> args]

TokenCallInputs ==
    {TokenCall(0, MaxGas, args) : args \in SeqsUpTo(0 .. MaxAmount, 1)}
    \cup {TokenCall(1, MaxGas, <<>>), TokenCall(0, 0, <<>>), TokenCall(0, MaxGas, <<1, 1>>)}

PlainCallInputs ==
    {[callValue |-> 0, gas |-> MaxGas, numArgs |-> 0],
     [callValue |-> 1, gas |-> MaxGas, numArgs |-> 0],
     [callValue |-> 0, gas |-> 0, numArgs |-> 0],
     [callValue |-> 0, gas |-> MaxGas, numArgs |-> 1]}

RegistryReturnCodes == {"ok", "error", UserError, OutOfGas, "ExecutionFailed"}

\* updateStakingV2 calls: the owner's address under every answer to the
\* setOwner sub-calls, an address without record, and malformed calls
UpdateStakingV2Inputs ==
    {[callValue |-> 0, args |-> <<Owner>>, ans |-> ans] :
        ans \in [1 .. MaxKeysPerCall -> {"ok", "failed"}]}
    \cup {[callValue |-> 0, args |-> args, ans |-> AllOk(MaxKeysPerCall)] :
             args \in {<<>>, <<OtherRewardAddress>>, <<"short">>}}
    \cup {[callValue |-> 1, args |-> <<Owner>>, ans |-> AllOk(MaxKeysPerCall)]}

ChangeRewardAddressInputs ==
    {[callValue |-> 0, gas |-> MaxGas, args |-> <<OtherRewardAddress>>, ans |-> ans] :
        ans \in RegistryReturnCodes}
    \cup {[callValue |-> 0, gas |-> MaxGas, args |-> args, ans |-> "ok"] :
             args \in {<<>>, <<Owner>>, <<"short">>}}
    \cup {[callValue |-> 1, gas |-> MaxGas, args |-> <<Owner>>, ans |-> "ok"],
          [callValue |-> 0, gas |-> 0, args |-> <<Owner>>, ans |-> "ok"]}

StakeCall(callValue, gas, hasArgs, maxNodes, pairs, opt, ans) ==
    [callValue |-> callValue, gas |-> gas, hasArgs |-> hasArgs, maxNodes |-> maxNodes,
     pairs |-> pairs, opt |-> opt, ans |-> ans]

Signed(keys) == [i \in 1 .. Len(keys) |-> [key |-> keys[i], sigOk |-> TRUE]]

\* the answers of the Staking Registry to a stake call with these keys: the
\* probes fail, or one register sub-call fails, or every stake sub-call has any
\* answer; a repeated key is answered Ok, or its second register sub-call fails
StakeAnswers(keys) ==
    IF Len(keys) = 2 /\ keys[1] = keys[2]
    THEN {[probeErr |-> FALSE, reg |-> AllOk(2), stake |-> AllOk(2)]}
         \cup {[probeErr |-> FALSE, reg |-> <<"ok", kind>>, stake |-> AllOk(2)] :
                  kind \in {"failed", "error"}}
    ELSE {[probeErr |-> TRUE, reg |-> AllOk(Len(keys)), stake |-> AllOk(Len(keys))]}
         \cup {[probeErr |-> FALSE,
                reg |-> [j \in 1 .. Len(keys) |-> IF j = Len(keys) THEN kind ELSE "ok"],
                stake |-> AllOk(Len(keys))] : kind \in {"failed", "error"}}
         \cup {[probeErr |-> FALSE, reg |-> AllOk(Len(keys)), stake |-> sa] :
                  sa \in [1 .. Len(keys) -> {"ok", "failed", "waiting"}]}

NoAnswers == [probeErr |-> FALSE, reg |-> <<>>, stake |-> <<>>]
GoodAnswers(n) == [probeErr |-> FALSE, reg |-> AllOk(n), stake |-> AllOk(n)]

OptionalArgs ==
    {<<[isAddress |-> TRUE, value |-> OtherRewardAddress]>>,
     <<[isAddress |-> FALSE, value |-> 1]>>}

StakeInputs ==
    \* a top-up without arguments
    {StakeCall(v, MaxGas, FALSE, 0, <<>>, <<>>, NoAnswers) : v \in 0 .. MaxTotalStake}
    \* signed keys under every answer of the registry
    \cup UNION {{StakeCall(v, MaxGas, TRUE, Len(keys), Signed(keys), <<>>, ans) :
                    v \in 0 .. MaxTotalStake, ans \in StakeAnswers(keys)} :
                   keys \in KeyLists \ {<<>>}}
    \* optional arguments
    \cup {StakeCall(v, MaxGas, TRUE, 1, Signed(keys), opt, GoodAnswers(1)) :
             v \in {0, NodePrice}, keys \in [1 .. 1 -> Keys], opt \in OptionalArgs}
    \* a key whose signature does not verify
    \cup {StakeCall(NodePrice, MaxGas, TRUE, Len(keys),
                    [Signed(keys) EXCEPT ![1].sigOk = FALSE], <<>>, GoodAnswers(Len(keys))) :
             keys \in {FirstKeys(1), FirstKeys(2)}}
    \* no gas, gas for one key only, no node, fewer pairs than nodes
    \cup {StakeCall(NodePrice, 0, TRUE, 1, Signed(FirstKeys(1)), <<>>, GoodAnswers(1)),
          StakeCall(NodePrice, GasUnit, TRUE, 2, Signed(FirstKeys(2)), <<>>, GoodAnswers(2)),
          StakeCall(NodePrice, MaxGas, TRUE, 0, <<>>, <<>>, NoAnswers),
          StakeCall(NodePrice, MaxGas, TRUE, 2, Signed(FirstKeys(1)), <<>>, GoodAnswers(1))}

\* stake calls that pay NodePrice for each of up to MaxCleanKeys signed keys,
\* repeated or not, the Staking Registry accepting or refusing every stake
ManyKeysStakeInputs ==
    UNION {{StakeCall(NodePrice * n, GasUnit * n, TRUE, n, Signed(keys), <<>>,
                      [probeErr |-> FALSE, reg |-> AllOk(n),
                       stake |-> [i \in 1 .. n |-> answer]]) :
               keys \in [1 .. n -> Keys], answer \in {"ok", "failed"}} :
              n \in 1 .. MaxCleanKeys}

NoCall == [fn |-> "none"]

\* ---------------------------------------------------------- overlapping calls
\* the threads of the host that call Execute, and the tables SetNewGasCost installs
Threads == {"t1", "t2"}
GasCosts == {GasUnit, GasUnit + 1}

\* what a handler does with the gas-cost table and the flags, in program order:
\* stake charges gas, reads flagEnableStaking, charges the gas of the other
\* nodes and reads flagDoubleKey; unStake reads flagEnableStaking, charges gas
\* and reads flagEnableTopUp after the sub-calls
HandlerSteps(fn) ==
    IF fn = "stake"
    THEN <<"UseGas", "flagEnableStaking", "UseGas", "flagDoubleKey">>
    ELSE <<"flagEnableStaking", "UseGas", "flagEnableTopUp">>

ConcurrentFunctions == {"stake", "unStake"}

NotExecuting == [fn |-> "none", next |-> 0, charged |-> <<>>, seen |-> <<>>]

\* ------------------------------------------------------------------ actions
\* ------------------------------------------------------- the hardfork storer
\* the identifiers and the keys the callers of the storer write; the value
\* written is always "v"
Identifiers == {"i1", "i2"}
StoreKeys == {"a", "b"}

\* a thread outside the storer
NotStoring ==
    [op |-> "none", id |-> "", key |-> "", at |-> "out", err |-> "nil",
     before |-> <<>>, vals |-> <<>>, buff |-> <<>>]

\* the marshalizer on a batch.Batch: a buffer that Unmarshal reads back
Marshal(b) == <<"batch">> \o b.Data
Unmarshal(buff) == [Data |-> Tail(buff)]

\* --------------------------------------- the ESDT freeze / wipe built-in function
Tokens == {"T1", "T2"}

\* the components NewESDTFreezeWipeFunc builds: freeze, un-freeze and wipe
FreezeWipeFuncs ==
    {[name |-> "freeze", freeze |-> TRUE, wipe |-> FALSE],
     [name |-> "unFreeze", freeze |-> FALSE, wipe |-> FALSE],
     [name |-> "wipe", freeze |-> FALSE, wipe |-> TRUE]}

\* the user metadata of a token entry in its two bytes: the lowest bit of the
\* first byte is the frozen bit; any other length reads as not frozen
ESDTUserMetadataFromBytes(bytes) ==
    IF Len(bytes) /= 2 THEN [Frozen |-> FALSE] ELSE [Frozen |-> bytes[1] % 2 = 1]

ToBytes(esdtUserMetadata) == <<IF esdtUserMetadata.Frozen THEN 1 ELSE 0, 0>>

\* the token data under a key of the account: empty token data when the
\* account holds nothing under the key
getESDTDataFromKey(trie, tokenKey) ==
    IF trie[tokenKey] = <<>> THEN [Value |-> 0, Properties |-> <<>>] ELSE trie[tokenKey][1]

saveESDTData(trie, tokenData, tokenKey) == [trie EXCEPT ![tokenKey] = <<tokenData>>]

TypeOK ==
    /\ flagEnableStaking \in BOOLEAN /\ flagEnableTopUp \in BOOLEAN
    /\ flagDoubleKey \in BOOLEAN /\ ownerIsSC \in BOOLEAN
    /\ epoch \in Epochs /\ nonce \in 0 .. MaxNonce
    /\ Len(storage) \in {0, 1}
    /\ pauseByte \in {<<>>, <<0>>, <<1>>}
    /\ unJailFunds \in 0 .. MaxCalls * MaxKeysPerCall * UnJailPrice
    /\ \A k \in Keys : Len(registry[k]) \in {0, 1}
    /\ sumStaked \in 0 .. IF MaxTotalStake > NodePrice * MaxCleanKeys
                           THEN MaxTotalStake ELSE NodePrice * MaxCleanKeys
    /\ pc \in {"idle", "returned"}
    /\ Len(prevUnBondTokens) \in {0, 1}
    /\ Len(prevClaim) \in {0, 1}
    /\ gasCost \in GasCosts
    /\ mutExecution.readers \subseteq Threads /\ mutExecution.writer \in BOOLEAN
    /\ \A t \in Threads : executing[t].fn \in ConcurrentFunctions \cup {"none"}
    /\ settingGasCost.at \in {"out", "locked", "assigned"}
    /\ confirming.at \in {"out", "flagEnableStaking", "flagEnableTopUp"}
    /\ \A id \in Identifiers :
          /\ Len(hsKeys[id]) <= MaxPendingKeys
          /\ Len(keysStore[id]) \in {0, 1}
    /\ \A k \in StoreKeys : keyValue[k] \in {<<>>, <<"v">>}
    /\ hsMut \in {<<>>} \cup {<<t>> : t \in Threads}
    /\ \A t \in Threads : storing[t].op \in {"none", "Write", "FinishedIdentifier"}
    /\ \A tok \in Tokens : Len(esdtData[tok]) \in {0, 1}
    /\ \A tok \in Tokens : lastToggle[tok] \in {"none", "freeze", "unFreeze"}

Init ==
    /\ flagEnableStaking = FALSE
    /\ flagEnableTopUp = FALSE
    /\ flagDoubleKey = FALSE
    /\ epoch = 0
    /\ nonce = 0
    /\ ownerIsSC \in BOOLEAN
    /\ storage = <<>>
    /\ pauseByte = <<>>
    /\ unJailFunds = 0
    /\ registry = [k \in Keys |-> <<>>]
    /\ sumStaked = 0
    /\ sumTransferred = 0
    /\ numCalls = 0
    /\ pc = "idle"
    /\ lastCall = NoCall
    /\ prevUnBondTokens = <<>>
    /\ prevClaim = <<>>
    /\ gasCost = GasUnit
    /\ mutExecution = [readers |-> {}, writer |-> FALSE]
    /\ executing = [t \in Threads |-> NotExecuting]
    /\ settingGasCost = [at |-> "out", gasCost |-> GasUnit]
    /\ confirming = [at |-> "out", epoch |-> 0]
    /\ hsKeys = [id \in Identifiers |-> <<>>]
    /\ keysStore = [id \in Identifiers |-> <<>>]
    /\ keyValue = [k \in StoreKeys |-> <<>>]
    /\ hsMut = <<>>
    /\ storing = [t \in Threads |-> NotStoring]
    /\ sincePrevious = [id \in Identifiers |-> <<>>]
    /\ sinceReleased = [id \in Identifiers |-> <<>>]
    /\ esdtData = [tok \in Tokens |-> <<[Value |-> 1, Properties |-> <<>>]>>]
    /\ lastToggle = [tok \in Tokens |-> "none"]
    /\ lastBuiltin = [fn |-> "none"]

\* the host keeps what a call did when it returns Ok and rolls it back otherwise
hostCommit(res) ==
    IF res.ret = Ok THEN res
    ELSE [res EXCEPT !.storage = storage, !.registry = registry, !.transfer = 0,
                     !.deleted = <<>>, !.banked = 0]

\* one Execute call of the owner: the handler runs once, the host commits or
\* rolls back, and the call returns
ExecuteAs(caller, fn, in, res) ==
    /\ pc = "idle"
    /\ numCalls < MaxCalls
    /\ \E raw \in {res} : \E kept \in {hostCommit(raw)} :
          /\ numCalls' = IF raw.ret = Ok THEN numCalls + 1 ELSE numCalls
          /\ pc' = "returned"
          /\ storage' = kept.storage
          /\ registry' = kept.registry
          /\ unJailFunds' = unJailFunds + kept.banked
          /\ sumTransferred' = sumTransferred + kept.transfer
          /\ sumStaked' = IF fn = "stake" /\ raw.ret = Ok THEN sumStaked + in.callValue
                          ELSE sumStaked
          /\ lastCall' = [fn |-> fn, caller |-> caller, in |-> in, ret |-> raw.ret,
                          transfer |-> kept.transfer, calls |-> raw.calls,
                          finish |-> raw.finish, deleted |-> kept.deleted,
                          wrote |-> raw.storage # storage,
                          after |-> prevUnBondTokens, before |-> storage,
                          afterClaim |-> prevClaim]
          /\ prevUnBondTokens' =
                IF fn = "unBondTokens" /\ raw.ret = Ok
                THEN <<[transfer |-> raw.transfer, withAmount |-> Len(in.args) = 1]>>
                ELSE <<>>
          /\ prevClaim' = IF fn = "claim" /\ raw.ret = Ok THEN <<raw.transfer>> ELSE <<>>
    /\ UNCHANGED <<lockVars, storerVars, esdtVars,
                   flagEnableStaking, flagEnableTopUp, flagDoubleKey, epoch, nonce,
                   ownerIsSC, pauseByte>>

Execute(fn, in, res) == ExecuteAs(Owner, fn, in, res)

Stake ==
    /\ pc = "idle"
    /\ numCalls < MaxCalls
    /\ \E in \in StakeInputs :
          /\ sumStaked + in.callValue <= MaxTotalStake
          /\ Execute("stake", in, stake(in))

\* stake calls with up to MaxCleanKeys keys
StakeManyKeys ==
    /\ pc = "idle"
    /\ numCalls < MaxCalls
    /\ \E in \in ManyKeysStakeInputs :
          /\ sumStaked + in.callValue <= NodePrice * MaxCleanKeys
          /\ Execute("stake", in, stake(in))

UnStakeRoom == Len(getOrCreateRegistrationData(storage).UnstakedInfo) < MaxUnstakedEntries

UnStake ==
    /\ pc = "idle"
    /\ numCalls < MaxCalls
    /\ UnStakeRoom
    /\ \E in \in KeyCallInputs : Execute("unStake", in, unStake(in))

UnStakeNodes ==
    /\ pc = "idle"
    /\ numCalls < MaxCalls
    /\ \E in \in KeyCallInputs : Execute("unStakeNodes", in, unStakeNodes(in))

UnStakeTokens ==
    /\ pc = "idle"
    /\ numCalls < MaxCalls
    /\ UnStakeRoom
    /\ \E in \in TokenCallInputs : Execute("unStakeTokens", in, unStakeTokens(in))

UnBond ==
    /\ pc = "idle"
    /\ numCalls < MaxCalls
    /\ \E in \in KeyCallInputs : Execute("unBond", in, unBond(in))

UnBondNodes ==
    /\ pc = "idle"
    /\ numCalls < MaxCalls
    /\ \E in \in KeyCallInputs : Execute("unBondNodes", in, unBondNodes(in))

UnBondTokens ==
    /\ pc = "idle"
    /\ numCalls < MaxCalls
    /\ \E in \in TokenCallInputs : Execute("unBondTokens", in, unBondTokens(in))

Claim ==
    /\ pc = "idle"
    /\ numCalls < MaxCalls
    /\ \E in \in PlainCallInputs : Execute("claim", in, claim(in))

ChangeRewardAddress ==
    /\ pc = "idle"
    /\ numCalls < MaxCalls
    /\ \E in \in ChangeRewardAddressInputs :
          Execute("changeRewardAddress", in, changeRewardAddress(in))

CleanRegisteredData ==
    /\ pc = "idle"
    /\ numCalls < MaxCalls
    /\ \E in \in PlainCallInputs : Execute("cleanRegisteredData", in, cleanRegisteredData(in))

UnJail ==
    /\ pc = "idle"
    /\ numCalls < MaxCalls
    /\ \E in \in UnJailInputs : Execute("unJail", in, unJail(in))

GetTotalStakedTopUpBlsKeys ==
    /\ pc = "idle"
    /\ numCalls < MaxCalls
    /\ \E in \in PlainCallInputs :
          Execute("getTotalStakedTopUpBlsKeys", in, getTotalStakedTopUpBlsKeys(in))

\* updateStakingV2, from the validator contract itself or from the owner
UpdateStakingV2 ==
    /\ pc = "idle"
    /\ numCalls < MaxCalls
    /\ \E caller \in {Owner, ValidatorSCAddress} : \E in \in UpdateStakingV2Inputs :
          ExecuteAs(caller, "updateStakingV2", in, updateStakingV2(caller, in))

\* pause and unpause, from the end-of-epoch address or from the owner
PauseCall(fn, caller, res) ==
    /\ pc = "idle"
    /\ numCalls < MaxCalls
    /\ numCalls' = IF res.ret = Ok THEN numCalls + 1 ELSE numCalls
    /\ pc' = "returned"
    /\ pauseByte' = res.pause
    /\ lastCall' = [fn |-> fn, caller |-> caller, in |-> [callValue |-> 0], ret |-> res.ret,
                    transfer |-> 0, calls |-> <<>>, finish |-> <<>>, deleted |-> <<>>,
                    wrote |-> FALSE, after |-> <<>>, before |-> storage,
                    afterClaim |-> <<>>]
    /\ prevUnBondTokens' = <<>>
    /\ prevClaim' = <<>>
    /\ UNCHANGED <<lockVars, storerVars, esdtVars,
                   flagEnableStaking, flagEnableTopUp, flagDoubleKey, epoch, nonce,
                   ownerIsSC, storage, unJailFunds, registry, sumStaked, sumTransferred>>

PauseUnStakeUnBond ==
    /\ pc = "idle"
    /\ numCalls < MaxCalls
    /\ \E caller \in Callers : PauseCall("pauseUnStakeUnBond", caller, pauseUnStakeUnBond(caller))

UnPauseUnStakeUnBond ==
    /\ pc = "idle"
    /\ numCalls < MaxCalls
    /\ \E caller \in Callers :
        PauseCall("unPauseUnStakeUnBond", caller, unPauseStakeUnBond(caller))

\* Execute returns and releases the read lock
ReturnToHost ==
    /\ pc = "returned"
    /\ pc' = "idle"
    /\ lastCall' = NoCall
    /\ UNCHANGED <<lockVars, storerVars, esdtVars,
                   flagEnableStaking, flagEnableTopUp, flagDoubleKey, epoch, nonce,
                   ownerIsSC, storage, pauseByte, unJailFunds, registry, sumStaked,
                   sumTransferred, numCalls, prevUnBondTokens, prevClaim>>

EpochConfirmed ==
    \E e \in Epochs :
      /\ pc = "idle"
      /\ e > epoch
      /\ nonce > 0
      /\ flagEnableStaking' = (e >= EnableStakingEpoch)
      /\ flagEnableTopUp' = (e >= StakingV2Epoch)
      /\ flagDoubleKey' = (e >= EnableDoubleKeyEpoch)
      /\ epoch' = e
      /\ prevUnBondTokens' = <<>>
      /\ prevClaim' = <<>>
      /\ UNCHANGED <<lockVars, storerVars, esdtVars,
                     nonce, ownerIsSC, storage, pauseByte, unJailFunds, registry,
                     sumStaked, sumTransferred, numCalls, pc, lastCall>>

\* the notification of any epoch setting the flags and never clearing them
EpochConfirmedRaisingOnly ==
    \E e \in Epochs :
      /\ pc = "idle"
      /\ nonce > 0
      /\ flagEnableStaking' = (flagEnableStaking \/ e >= EnableStakingEpoch)
      /\ flagEnableTopUp' = (flagEnableTopUp \/ e >= StakingV2Epoch)
      /\ flagDoubleKey' = (flagDoubleKey \/ e >= EnableDoubleKeyEpoch)
      /\ epoch' = e
      /\ prevUnBondTokens' = <<>>
      /\ prevClaim' = <<>>
      /\ UNCHANGED <<lockVars, storerVars, esdtVars,
                     nonce, ownerIsSC, storage, pauseByte, unJailFunds, registry,
                     sumStaked, sumTransferred, numCalls, pc, lastCall>>

\* the notification of any epoch: a chain that reverts across an epoch change
\* delivers an earlier epoch, and the same epoch may be delivered again
EpochConfirmedAnyOrder ==
    \E e \in Epochs :
      /\ pc = "idle"
      /\ nonce > 0
      /\ flagEnableStaking' = (e >= EnableStakingEpoch)
      /\ flagEnableTopUp' = (e >= StakingV2Epoch)
      /\ flagDoubleKey' = (e >= EnableDoubleKeyEpoch)
      /\ epoch' = e
      /\ prevUnBondTokens' = <<>>
      /\ prevClaim' = <<>>
      /\ UNCHANGED <<lockVars, storerVars, esdtVars,
                     nonce, ownerIsSC, storage, pauseByte, unJailFunds, registry,
                     sumStaked, sumTransferred, numCalls, pc, lastCall>>

\* the host produces the next block
AdvanceNonce ==
    /\ pc = "idle"
    /\ nonce < MaxNonce
    /\ nonce' = nonce + 1
    /\ prevUnBondTokens' = <<>>
    /\ prevClaim' = <<>>
    /\ UNCHANGED <<lockVars, storerVars, esdtVars,
                   flagEnableStaking, flagEnableTopUp, flagDoubleKey, epoch, ownerIsSC,
                   storage, pauseByte, unJailFunds, registry, sumStaked, sumTransferred,
                   numCalls, pc, lastCall>>

Next ==
    \/ Stake
    \/ UnStake
    \/ UnStakeNodes
    \/ UnStakeTokens
    \/ UnBond
    \/ UnBondNodes
    \/ UnBondTokens
    \/ Claim
    \/ ChangeRewardAddress
    \/ CleanRegisteredData
    \/ PauseUnStakeUnBond
    \/ UnPauseUnStakeUnBond
    \/ ReturnToHost
    \/ EpochConfirmed
    \/ AdvanceNonce

Spec == Init /\ [][Next]_vars

\* stake, unStake, unBond and claim calls only
NextFunds ==
    \/ Stake
    \/ UnStake
    \/ UnBond
    \/ Claim
    \/ ReturnToHost
    \/ EpochConfirmed
    \/ AdvanceNonce

SpecFunds == Init /\ [][NextFunds]_vars

\* stake, unStake, unBond, pause and unpause calls under epoch notifications in
\* any order
NextEpochs ==
    \/ Stake
    \/ UnStake
    \/ UnBond
    \/ PauseUnStakeUnBond
    \/ UnPauseUnStakeUnBond
    \/ ReturnToHost
    \/ EpochConfirmedAnyOrder
    \/ AdvanceNonce

SpecEpochs == Init /\ [][NextEpochs]_vars

\* the handlers the top-up flag switches on or off
NextTopUp ==
    \/ Stake
    \/ UnStakeNodes
    \/ UnStakeTokens
    \/ UnBondNodes
    \/ UnBondTokens
    \/ Claim
    \/ GetTotalStakedTopUpBlsKeys
    \/ UpdateStakingV2
    \/ PauseUnStakeUnBond
    \/ UnPauseUnStakeUnBond
    \/ ReturnToHost
    \/ EpochConfirmed
    \/ AdvanceNonce

SpecTopUp == Init /\ [][NextTopUp]_vars

\* stake and unJail calls
NextUnJail ==
    \/ Stake
    \/ UnJail
    \/ ReturnToHost
    \/ EpochConfirmed
    \/ AdvanceNonce

SpecUnJail == Init /\ [][NextUnJail]_vars

\* ------------------------------------------------- calls that overlap in time
seqVars == <<nonce, ownerIsSC, storage, pauseByte, unJailFunds, registry, sumStaked,
             sumTransferred, numCalls, pc, lastCall, prevUnBondTokens, prevClaim>>

flagVars == <<flagEnableStaking, flagEnableTopUp, flagDoubleKey, epoch>>

\* Execute takes the read lock: mutExecution.RLock()
RLock ==
    \E t \in Threads : \E fn \in ConcurrentFunctions :
      /\ executing[t].fn = "none"
      /\ ~mutExecution.writer
      /\ mutExecution' = [mutExecution EXCEPT !.readers = @ \cup {t}]
      /\ executing' = [executing EXCEPT ![t] = [NotExecuting EXCEPT !.fn = fn, !.next = 1]]
      /\ UNCHANGED <<seqVars, storerVars, esdtVars,
                     flagVars, gasCost, settingGasCost, confirming>>

\* the value of a flag as flag.IsSet() returns it
IsSet(flag) ==
    IF flag = "flagEnableStaking" THEN flagEnableStaking
    ELSE IF flag = "flagEnableTopUp" THEN flagEnableTopUp
    ELSE flagDoubleKey

\* a handler that finds staking disabled returns: unStake always, stake after
\* genesis
ReturnsAfter(fn, step, value) ==
    /\ step = "flagEnableStaking"
    /\ ~value
    /\ (fn = "unStake" \/ nonce # 0)

\* the next step of a handler under the read lock: a charge at the current
\* gas cost, or the read of a flag
HandlerStep ==
    \E t \in Threads :
      /\ executing[t].fn # "none"
      /\ executing[t].next <= Len(HandlerSteps(executing[t].fn))
      /\ LET call == executing[t]
             step == HandlerSteps(call.fn)[call.next]
         IN executing' = [executing EXCEPT ![t] =
                IF step = "UseGas"
                THEN [call EXCEPT !.charged = Append(@, gasCost), !.next = @ + 1]
                ELSE [call EXCEPT !.seen = Append(@, <<step, IsSet(step)>>),
                                  !.next = IF ReturnsAfter(call.fn, step, IsSet(step))
                                           THEN Len(HandlerSteps(call.fn)) + 1
                                           ELSE @ + 1]]
      /\ UNCHANGED <<seqVars, storerVars, esdtVars,
                     flagVars, gasCost, mutExecution, settingGasCost, confirming>>

\* Execute returns: the deferred mutExecution.RUnlock()
RUnlock ==
    \E t \in Threads :
      /\ executing[t].fn # "none"
      /\ executing[t].next > Len(HandlerSteps(executing[t].fn))
      /\ mutExecution' = [mutExecution EXCEPT !.readers = @ \ {t}]
      /\ executing' = [executing EXCEPT ![t] = NotExecuting]
      /\ UNCHANGED <<seqVars, storerVars, esdtVars,
                     flagVars, gasCost, settingGasCost, confirming>>

\* SetNewGasCost taking the lock with readers inside
SetNewGasCostWithoutLock(newGasCost) ==
    /\ settingGasCost.at = "out"
    /\ ~mutExecution.writer
    /\ mutExecution' = [mutExecution EXCEPT !.writer = TRUE]
    /\ settingGasCost' = [at |-> "locked", gasCost |-> newGasCost]
    /\ UNCHANGED <<seqVars, storerVars, esdtVars, flagVars, gasCost, executing, confirming>>

\* SetNewGasCost: mutExecution.Lock() waits until no reader and no writer is left
SetNewGasCostLock(newGasCost) ==
    /\ settingGasCost.at = "out"
    /\ mutExecution.readers = {}
    /\ ~mutExecution.writer
    /\ mutExecution' = [mutExecution EXCEPT !.writer = TRUE]
    /\ settingGasCost' = [at |-> "locked", gasCost |-> newGasCost]
    /\ UNCHANGED <<seqVars, storerVars, esdtVars, flagVars, gasCost, executing, confirming>>

\* SetNewGasCost: v.gasCost = gasCost
SetNewGasCostAssign ==
    /\ settingGasCost.at = "locked"
    /\ gasCost' = settingGasCost.gasCost
    /\ settingGasCost' = [settingGasCost EXCEPT !.at = "assigned"]
    /\ UNCHANGED <<seqVars, storerVars, esdtVars,
                   flagVars, mutExecution, executing, confirming>>

\* SetNewGasCost: mutExecution.Unlock()
SetNewGasCostUnlock ==
    /\ settingGasCost.at = "assigned"
    /\ mutExecution' = [mutExecution EXCEPT !.writer = FALSE]
    /\ settingGasCost' = [settingGasCost EXCEPT !.at = "out"]
    /\ UNCHANGED <<seqVars, storerVars, esdtVars, flagVars, gasCost, executing, confirming>>

SetNewGasCost ==
    \/ \E newGasCost \in GasCosts : SetNewGasCostLock(newGasCost)
    \/ SetNewGasCostAssign
    \/ SetNewGasCostUnlock

\* EpochConfirmed called from the notifier's thread: the three Toggle calls are
\* three stores, and the function takes no lock
ToggleEnableStaking ==
    \E e \in Epochs :
      /\ confirming.at = "out"
      /\ flagEnableStaking' = (e >= EnableStakingEpoch)
      /\ epoch' = e
      /\ confirming' = [at |-> "flagEnableStaking", epoch |-> e]
      /\ UNCHANGED <<seqVars, storerVars, esdtVars,
                     flagEnableTopUp, flagDoubleKey, gasCost, mutExecution,
                     executing, settingGasCost>>

ToggleEnableTopUp ==
    /\ confirming.at = "flagEnableStaking"
    /\ flagEnableTopUp' = (confirming.epoch >= StakingV2Epoch)
    /\ confirming' = [confirming EXCEPT !.at = "flagEnableTopUp"]
    /\ UNCHANGED <<seqVars, storerVars, esdtVars,
                   flagEnableStaking, flagDoubleKey, epoch, gasCost, mutExecution,
                   executing, settingGasCost>>

ToggleDoubleKey ==
    /\ confirming.at = "flagEnableTopUp"
    /\ flagDoubleKey' = (confirming.epoch >= EnableDoubleKeyEpoch)
    /\ confirming' = [confirming EXCEPT !.at = "out"]
    /\ UNCHANGED <<seqVars, storerVars, esdtVars,
                   flagEnableStaking, flagEnableTopUp, epoch, gasCost, mutExecution,
                   executing, settingGasCost>>

EpochConfirmedConcurrently ==
    \/ ToggleEnableStaking
    \/ ToggleEnableTopUp
    \/ ToggleDoubleKey

\* Execute calls of two threads, SetNewGasCost and EpochConfirmed, each on its
\* own thread
NextConcurrent ==
    \/ RLock
    \/ HandlerStep
    \/ RUnlock
    \/ SetNewGasCost
    \/ EpochConfirmedConcurrently
    \/ AdvanceNonce

SpecConcurrent == Init /\ [][NextConcurrent]_vars

\* every handler that loads the owner's record
NextRecord ==
    \/ Stake
    \/ UnStake
    \/ UnStakeNodes
    \/ UnStakeTokens
    \/ UnBond
    \/ UnBondNodes
    \/ UnBondTokens
    \/ UnJail
    \/ Claim
    \/ ChangeRewardAddress
    \/ CleanRegisteredData
    \/ ReturnToHost
    \/ EpochConfirmed
    \/ AdvanceNonce

SpecRecord == Init /\ [][NextRecord]_vars

\* stake calls with repeated keys and cleanRegisteredData calls
NextClean ==
    \/ StakeManyKeys
    \/ CleanRegisteredData
    \/ ReturnToHost
    \/ EpochConfirmed
    \/ AdvanceNonce

SpecClean == Init /\ [][NextClean]_vars

\* --------------------------------------------- the calls of the hardfork storer
validatorVars == <<flagVars, seqVars, lockVars>>

\* the key recorded in front of the pending keys
recordKeyInFront(pending, key) == <<key>> \o pending

\* hs.keys[identifier] = append(hs.keys[identifier], key)
appendKey(pending, key) == Append(pending, key)

\* the number of keys pending in memory under these identifiers
RECURSIVE NumPending(_)
NumPending(ids) ==
    IF ids = {} THEN 0
    ELSE LET id == CHOOSE i \in ids : TRUE
         IN Len(hsKeys[id]) + NumPending(ids \ {id})

\* Write takes the mutex: hs.mut.Lock()
WriteLock ==
    \E t \in Threads : \E id \in Identifiers : \E key \in StoreKeys :
      /\ storing[t].op = "none"
      /\ hsMut = <<>>
      /\ NumPending(Identifiers) < MaxPendingKeys
      /\ hsMut' = <<t>>
      /\ storing' = [storing EXCEPT ![t] =
             [NotStoring EXCEPT !.op = "Write", !.id = id, !.key = key, !.at = "locked",
                                !.before = hsKeys[id]]]
      /\ sincePrevious' = [sincePrevious EXCEPT ![id] =
             Append(@, [key |-> key, stored |-> FALSE])]
      /\ sinceReleased' = [sinceReleased EXCEPT ![id] =
             Append(@, [key |-> key, stored |-> FALSE])]
      /\ UNCHANGED <<validatorVars, esdtVars, hsKeys, keysStore, keyValue>>

\* Write records the key under the identifier
WriteAppend ==
    \E t \in Threads :
      /\ storing[t].op = "Write"
      /\ storing[t].at = "locked"
      /\ hsKeys' = [hsKeys EXCEPT ![storing[t].id] = appendKey(@, storing[t].key)]
      /\ storing' = [storing EXCEPT ![t].at = "appended"]
      /\ UNCHANGED <<validatorVars, esdtVars, keysStore, keyValue, hsMut, sincePrevious,
                     sinceReleased>>

\* Write returns what hs.keyValue.Put(key, value) returns: the store takes the
\* pair or rejects it
WritePut ==
    \E t \in Threads : \E ok \in BOOLEAN :
      /\ storing[t].op = "Write"
      /\ storing[t].at = "appended"
      /\ keyValue' = IF ok THEN [keyValue EXCEPT ![storing[t].key] = <<"v">>]
                     ELSE keyValue
      /\ storing' = [storing EXCEPT ![t].at = "done",
                                    ![t].err = IF ok THEN "nil" ELSE "ErrPut"]
      /\ sincePrevious' = [sincePrevious EXCEPT
            ![storing[t].id] = [@ EXCEPT ![Len(@)].stored = ok]]
      /\ sinceReleased' = [sinceReleased EXCEPT
            ![storing[t].id] = [@ EXCEPT ![Len(@)].stored = ok]]
      /\ UNCHANGED <<validatorVars, esdtVars, hsKeys, keysStore, hsMut>>

\* the deferred hs.mut.Unlock() of Write
WriteUnlock ==
    \E t \in Threads :
      /\ storing[t].op = "Write"
      /\ storing[t].at = "done"
      /\ hsMut' = <<>>
      /\ storing' = [storing EXCEPT ![t] = NotStoring]
      /\ UNCHANGED <<validatorVars, esdtVars, hsKeys, keysStore, keyValue, sincePrevious,
                     sinceReleased>>

\* FinishedIdentifier takes the mutex
FinishedLock ==
    \E t \in Threads : \E id \in Identifiers :
      /\ storing[t].op = "none"
      /\ hsMut = <<>>
      /\ hsMut' = <<t>>
      /\ storing' = [storing EXCEPT ![t] =
             [NotStoring EXCEPT !.op = "FinishedIdentifier", !.id = id, !.at = "locked",
                                !.before = keysStore]]
      /\ UNCHANGED <<validatorVars, esdtVars, hsKeys, keysStore, keyValue, sincePrevious,
                     sinceReleased>>

\* FinishedIdentifier reads the pending keys, returns nil when there is none,
\* and marshals the batch, returning the error of the marshalizer if it fails
FinishedMarshal ==
    \E t \in Threads : \E ok \in BOOLEAN :
      /\ storing[t].op = "FinishedIdentifier"
      /\ storing[t].at = "locked"
      /\ LET vals == hsKeys[storing[t].id]
         IN storing' = [storing EXCEPT ![t] =
                IF Len(vals) = 0 THEN [@ EXCEPT !.at = "done"]
                ELSE IF ok
                THEN [@ EXCEPT !.at = "marshalled", !.vals = vals,
                               !.buff = Marshal([Data |-> vals])]
                ELSE [@ EXCEPT !.at = "done", !.vals = vals, !.err = "ErrMarshal"]]
      /\ UNCHANGED <<validatorVars, esdtVars, hsKeys, keysStore, keyValue, hsMut,
                     sincePrevious, sinceReleased>>

\* delete(hs.keys, identifier)
FinishedDelete ==
    \E t \in Threads :
      /\ storing[t].op = "FinishedIdentifier"
      /\ storing[t].at = "marshalled"
      /\ hsKeys' = [hsKeys EXCEPT ![storing[t].id] = <<>>]
      /\ storing' = [storing EXCEPT ![t].at = "deleted"]
      /\ UNCHANGED <<validatorVars, esdtVars, keysStore, keyValue, hsMut, sincePrevious,
                     sinceReleased>>

\* FinishedIdentifier returns what hs.keysStore.Put(identifier, buff) returns
FinishedPut ==
    \E t \in Threads : \E ok \in BOOLEAN :
      /\ storing[t].op = "FinishedIdentifier"
      /\ storing[t].at = "deleted"
      /\ keysStore' = IF ok THEN [keysStore EXCEPT ![storing[t].id] = <<storing[t].buff>>]
                      ELSE keysStore
      /\ storing' = [storing EXCEPT ![t].at = "done",
                                    ![t].err = IF ok THEN "nil" ELSE "ErrPut"]
      /\ UNCHANGED <<validatorVars, esdtVars, hsKeys, keyValue, hsMut, sincePrevious,
                     sinceReleased>>

\* the deferred hs.mut.Unlock() of FinishedIdentifier: the call returns
FinishedUnlock ==
    \E t \in Threads :
      /\ storing[t].op = "FinishedIdentifier"
      /\ storing[t].at = "done"
      /\ hsMut' = <<>>
      /\ storing' = [storing EXCEPT ![t] = NotStoring]
      /\ sincePrevious' = [sincePrevious EXCEPT ![storing[t].id] = <<>>]
      /\ sinceReleased' = [sinceReleased EXCEPT ![storing[t].id] =
             IF hsKeys[storing[t].id] = <<>> THEN <<>> ELSE @]
      /\ UNCHANGED <<validatorVars, esdtVars, hsKeys, keysStore, keyValue>>

\* RangeKeys: the identifiers of the keys store with the keys of their batch
RangeKeys(store) ==
    {<<id, Unmarshal(store[id][1]).Data>> : id \in {i \in Identifiers : store[i] /= <<>>}}

\* Write and FinishedIdentifier calls of two threads
NextStorer ==
    \/ WriteLock
    \/ WriteAppend
    \/ WritePut
    \/ WriteUnlock
    \/ FinishedLock
    \/ FinishedMarshal
    \/ FinishedDelete
    \/ FinishedPut
    \/ FinishedUnlock

SpecStorer == Init /\ [][NextStorer]_vars

\* --------------------------------------- the ESDT freeze / wipe built-in function
\* a wipe that does not look at the frozen bit
wipeWhateverFrozen(acntDst, tokenKey, host) ==
    IF ~host.read THEN [err |-> "ErrUnmarshal", trie |-> acntDst]
    ELSE IF ~host.save THEN [err |-> "ErrSave", trie |-> acntDst]
    ELSE [err |-> "nil", trie |-> [acntDst EXCEPT ![tokenKey] = <<>>]]

\* host.read: the stored token data unmarshal; host.save: the data trie takes
\* the value. SaveKeyValue(tokenKey, nil) removes the entry.
wipeIfApplicable(acntDst, tokenKey, host) ==
    IF ~host.read THEN [err |-> "ErrUnmarshal", trie |-> acntDst]
    ELSE LET tokenData == getESDTDataFromKey(acntDst, tokenKey)
             esdtUserMetadata == ESDTUserMetadataFromBytes(tokenData.Properties)
         IN IF ~esdtUserMetadata.Frozen
            THEN [err |-> "ErrCannotWipeAccountNotFrozen", trie |-> acntDst]
            ELSE IF ~host.save THEN [err |-> "ErrSave", trie |-> acntDst]
            ELSE [err |-> "nil", trie |-> [acntDst EXCEPT ![tokenKey] = <<>>]]

toggleFreeze(e, acntDst, tokenKey, host) ==
    IF ~host.read THEN [err |-> "ErrUnmarshal", trie |-> acntDst]
    ELSE LET tokenData == getESDTDataFromKey(acntDst, tokenKey)
             esdtUserMetadata == [ESDTUserMetadataFromBytes(tokenData.Properties)
                                     EXCEPT !.Frozen = e.freeze]
             toSave == [tokenData EXCEPT !.Properties = ToBytes(esdtUserMetadata)]
         IN IF ~host.save THEN [err |-> "ErrSave", trie |-> acntDst]
            ELSE [err |-> "nil", trie |-> saveESDTData(acntDst, toSave, tokenKey)]

\* one call of a freeze, un-freeze or wipe component on the destination
\* account; the token key is the key prefix followed by the one argument
ProcessBuiltinFunction ==
    \E e \in FreezeWipeFuncs, nilInput \in BOOLEAN, CallValue \in {0, 1},
       tok \in Tokens, numArguments \in 0 .. 2,
       CallerAddr \in {"ESDT", "user"}, nilAccount \in BOOLEAN,
       host \in [read : BOOLEAN, save : BOOLEAN] :
      LET err == IF nilInput THEN "ErrNilVmInput"
                 ELSE IF CallValue /= 0 THEN "ErrBuiltInFunctionCalledWithValue"
                 ELSE IF numArguments /= 1 THEN "ErrInvalidArguments"
                 ELSE IF CallerAddr /= "ESDT" THEN "ErrAddressIsNotESDTSystemSC"
                 ELSE IF nilAccount THEN "ErrNilUserAccount"
                 ELSE "nil"
          out == IF err /= "nil" THEN [err |-> err, trie |-> esdtData]
                 ELSE IF e.wipe THEN wipeIfApplicable(esdtData, tok, host)
                 ELSE toggleFreeze(e, esdtData, tok, host)
      IN /\ esdtData' = out.trie
         /\ lastToggle' = IF out.err = "nil" /\ ~e.wipe
                          THEN [lastToggle EXCEPT ![tok] = e.name]
                          ELSE lastToggle
         /\ lastBuiltin' = [fn |-> e.name, token |-> tok, err |-> out.err,
                            valid |-> err = "nil", read |-> host.read,
                            before |-> esdtData[tok]]
         /\ UNCHANGED <<validatorVars, storerVars>>

NextESDT == ProcessBuiltinFunction

SpecESDT == Init /\ [][NextESDT]_vars

\* --------------------------------------------------------------- properties
\* the owner's record, a deleted record counting as zero
Stored == getOrCreateRegistrationData(storage)

ReturnedOk == pc = "returned" /\ lastCall.ret = Ok /\ lastCall.caller = Owner

Drained(rd) ==
    /\ rd.TotalStakeValue = 0
    /\ rd.LockedStake = 0
    /\ rd.TotalUnstaked = 0
    /\ rd.UnstakedInfo = <<>>

\* C1: conservation of funds. After every Ok call of a stake / unStake /
\* unBond / claim sequence, the call values of the Ok stake calls equal the
\* stored TotalStakeValue plus the stored TotalUnstaked plus everything the
\* contract transferred to the caller.
FundsConserved ==
    ReturnedOk =>
        sumStaked = Stored.TotalStakeValue + Stored.TotalUnstaked + sumTransferred

\* C2: a record is deleted only when fully drained. No step removes the
\* owner's record while its TotalStakeValue, LockedStake or TotalUnstaked is
\* positive or its UnstakedInfo is non-empty.
DeletedOnlyWhenDrained ==
    [][(storage /= <<>> /\ storage' = <<>>) =>
          /\ lastCall'.deleted /= <<>>
          /\ Drained(lastCall'.deleted[1])]_vars

\* C3: after any handler returns Ok to the owner, a record whose
\* TotalStakeValue, LockedStake and TotalUnstaked are all zero is not stored.
ZeroRecordNotStored ==
    (ReturnedOk /\ storage /= <<>>) =>
        ~(/\ storage[1].TotalStakeValue = 0
          /\ storage[1].LockedStake = 0
          /\ storage[1].TotalUnstaked = 0)

\* C4: in every stored record TotalUnstaked equals the sum of the values of
\* the UnstakedInfo entries.
UnstakedSumMatches ==
    storage /= <<>> => storage[1].TotalUnstaked = SumValues(storage[1].UnstakedInfo)

\* C5: while the top-up flag is set, after every handler that returns Ok the
\* stored record has LockedStake = NodePrice * NumRegistered.
LockedIsPriceTimesRegistered ==
    (ReturnedOk /\ flagEnableTopUp /\ storage /= <<>>) =>
        storage[1].LockedStake = NodePrice * storage[1].NumRegistered

\* C6: in every stored record NumRegistered is at most the number of BlsPubKeys.
RegisteredAtMostKeys ==
    storage /= <<>> => storage[1].NumRegistered <= Len(storage[1].BlsPubKeys)

\* the number of keys the Staking Registry unbonded in the call that returned
NumUnBonded == Len(unBondNodesFromStakingSC(lastCall.in.keys, lastCall.in.ans, registry).keys)

\* a call that was refused and would have taken a field below zero: unBondV1
\* subtracting totalUnBond, unStakeTokens unstaking more than TotalStakeValue
RefusedUnderflow ==
    /\ pc = "returned"
    /\ lastCall.ret /= Ok
    /\ \/ /\ lastCall.fn = "unBond"
          /\ ~flagEnableTopUp
          /\ checkUnBondArguments(lastCall.in) = Ok
          /\ \/ NodePrice * NumUnBonded > Stored.LockedStake
             \/ NodePrice * NumUnBonded > Stored.TotalStakeValue
       \/ /\ lastCall.fn = "unStakeTokens"
          /\ lastCall.in.gas >= GasUnit
          /\ Len(lastCall.in.args) = 1
          /\ lastCall.in.args[1] > Stored.TotalStakeValue

\* C7: TotalStakeValue, LockedStake and TotalUnstaked of a stored record are
\* never negative, and a step that would take one of them below zero returns
\* UserError without saving the record.
NeverNegative ==
    /\ storage /= <<>> =>
          /\ storage[1].TotalStakeValue >= 0
          /\ storage[1].LockedStake >= 0
          /\ storage[1].TotalUnstaked >= 0
    /\ RefusedUnderflow => (lastCall.ret = UserError /\ ~lastCall.wrote)

\* the entries of a record that have not matured at the current nonce
IsImmature(entry) == nonce - entry.UnstakedNonce < UnBondPeriod
Immature(info) == SelectSeq(info, IsImmature)
IsMatured(entry) == ~IsImmature(entry)
Matured(info) == SelectSeq(info, IsMatured)

LastEntries(info, n) == SubSeq(info, Len(info) - n + 1, Len(info))

\* a step in which unBondTokens, or unBond in the top-up era, returns
UnBondReturns ==
    /\ pc = "idle"
    /\ pc' = "returned"
    /\ \/ lastCall'.fn = "unBondTokens"
       \/ lastCall'.fn = "unBond" /\ flagEnableTopUp

\* C8: no early withdrawal. unBondTokens and top-up-era unBond transfer no
\* more than the matured entries hold and leave every entry that has not
\* matured in the stored record.
NoEarlyWithdrawal ==
    [][UnBondReturns =>
          /\ lastCall'.transfer <= SumValues(Matured(Stored.UnstakedInfo))
          /\ Len(getOrCreateRegistrationData(storage').UnstakedInfo)
                 >= Len(Immature(Stored.UnstakedInfo))
          /\ LastEntries(getOrCreateRegistrationData(storage').UnstakedInfo,
                         Len(Immature(Stored.UnstakedInfo)))
                 = Immature(Stored.UnstakedInfo)]_vars

\* a well-formed unBondTokens call without argument returns while unStake and
\* unBond are not paused and every entry of the stored record has matured
DrainReturns ==
    /\ pc = "idle"
    /\ pc' = "returned"
    /\ lastCall'.fn = "unBondTokens"
    /\ lastCall'.in.args = <<>>
    /\ lastCall'.in.callValue = 0
    /\ lastCall'.in.gas >= GasUnit
    /\ flagEnableTopUp
    /\ ~isUnStakeUnBondPaused(pauseByte)
    /\ storage /= <<>>
    /\ Immature(storage[1].UnstakedInfo) = <<>>

\* C9: matured funds are withdrawable. Such a call returns Ok, transfers the
\* previous TotalUnstaked and leaves TotalUnstaked = 0 and UnstakedInfo empty.
MaturedWithdrawable ==
    [][DrainReturns =>
          /\ lastCall'.ret = Ok
          /\ lastCall'.transfer = storage[1].TotalUnstaked
          /\ getOrCreateRegistrationData(storage').TotalUnstaked = 0
          /\ getOrCreateRegistrationData(storage').UnstakedInfo = <<>>]_vars

\* unBondTokens has returned right after an Ok unBondTokens call, at the same
\* nonce
SecondUnBondTokensReturned ==
    /\ pc = "returned"
    /\ lastCall.fn = "unBondTokens"
    /\ lastCall.after /= <<>>

\* C10 as stated: after an unBondTokens call, with or without an amount, an
\* immediately following unBondTokens call at the same nonce transfers 0.
SecondUnBondTransfersNothing ==
    SecondUnBondTokensReturned => lastCall.transfer = 0

\* C10: after an unBondTokens call without an amount, an immediately
\* following unBondTokens call at the same nonce transfers 0.
SecondUnBondAfterDrainTransfersNothing ==
    (SecondUnBondTokensReturned /\ ~lastCall.after[1].withAmount) =>
        lastCall.transfer = 0

\* what is left of the entries when amount is taken from the front: entries
\* used up are dropped, an entry used in part keeps its nonce and the remainder
RECURSIVE TakeFromFront(_, _)
TakeFromFront(info, amount) ==
    IF amount = 0 \/ info = <<>> THEN info
    ELSE IF Head(info).UnstakedValue <= amount
    THEN TakeFromFront(Tail(info), amount - Head(info).UnstakedValue)
    ELSE <<[UnstakedNonce |-> Head(info).UnstakedNonce,
            UnstakedValue |-> Head(info).UnstakedValue - amount]>> \o Tail(info)

\* a well-formed unBondTokens(amount) call returns while unStake and unBond
\* are not paused and the matured entries hold at least amount
SplitUnBondReturns ==
    /\ pc = "idle"
    /\ pc' = "returned"
    /\ lastCall'.fn = "unBondTokens"
    /\ lastCall'.in.callValue = 0
    /\ lastCall'.in.gas >= GasUnit
    /\ Len(lastCall'.in.args) = 1
    /\ lastCall'.in.args[1] > 0
    /\ flagEnableTopUp
    /\ ~isUnStakeUnBondPaused(pauseByte)
    /\ storage /= <<>>
    /\ lastCall'.in.args[1] <= SumValues(Matured(storage[1].UnstakedInfo))

\* C11: split unbond. Such a call transfers exactly amount, lowers
\* TotalUnstaked by exactly amount, removes the entries used up from the
\* front of UnstakedInfo and leaves an entry used in part at the head with its
\* nonce and the remainder, the later entries unchanged.
SplitUnBondExact ==
    [][SplitUnBondReturns =>
          /\ lastCall'.ret = Ok
          /\ lastCall'.transfer = lastCall'.in.args[1]
          /\ storage' /= <<>>
          /\ storage'[1].TotalUnstaked = storage[1].TotalUnstaked - lastCall'.in.args[1]
          /\ storage'[1].UnstakedInfo =
                 TakeFromFront(storage[1].UnstakedInfo, lastCall'.in.args[1])]_vars

PauseFunctions == {"pauseUnStakeUnBond", "unPauseUnStakeUnBond"}

\* C13: the pause byte changes only in a pauseUnStakeUnBond or unpause call of
\* the end-of-epoch address that returns Ok while the top-up flag is set; the
\* same calls from another caller, or while the flag is unset, return
\* UserError and leave the pause byte as it is.
PauseByteGuarded ==
    [][/\ pauseByte' /= pauseByte =>
              /\ pc' = "returned"
              /\ lastCall'.fn \in PauseFunctions
              /\ lastCall'.caller = EndOfEpochAddress
              /\ lastCall'.ret = Ok
              /\ flagEnableTopUp
       /\ (/\ pc = "idle"
           /\ pc' = "returned"
           /\ lastCall'.fn \in PauseFunctions
           /\ (lastCall'.caller /= EndOfEpochAddress \/ ~flagEnableTopUp)) =>
              /\ lastCall'.ret = UserError
              /\ pauseByte' = pauseByte]_vars

UnStakeUnBondFunctions ==
    {"unStake", "unStakeNodes", "unStakeTokens", "unBond", "unBondNodes", "unBondTokens"}

\* C12: pause blocks unstake and unbond. While the pause byte is 1, every
\* unStake, unStakeNodes, unStakeTokens, unBond, unBondNodes and unBondTokens
\* call returns UserError, issues no Staking Registry sub-call, transfers
\* nothing and writes no record, whatever epoch notifications have arrived.
PausedCallBlocked ==
    (/\ pc = "returned"
     /\ lastCall.fn \in UnStakeUnBondFunctions
     /\ isUnStakeUnBondPaused(pauseByte)) =>
        /\ lastCall.ret = UserError
        /\ lastCall.calls = <<>>
        /\ lastCall.transfer = 0
        /\ ~lastCall.wrote

HasCall(calls, command) == \E i \in 1 .. Len(calls) : calls[i][1] = command

\* a well-formed stake call returns that declared validly signed, distinct keys
\* unknown to the record and to the Staking Registry, every probe and register
\* sub-call succeeding, with a total stake of at least one node price after the
\* call value is added but more keys than the total stake pays for
UnderFundedStakeReturns ==
    /\ pc = "idle"
    /\ pc' = "returned"
    /\ lastCall'.fn = "stake"
    /\ nonce = 0 \/ flagEnableStaking
    /\ LET in == lastCall'.in
       IN /\ in.hasArgs
          /\ in.maxNodes > 0
          /\ in.maxNodes = Len(in.pairs)
          /\ in.gas >= GasUnit * in.maxNodes
          /\ \A i \in 1 .. Len(in.pairs) :
                /\ in.pairs[i].sigOk
                /\ ~Contains(Stored.BlsPubKeys, in.pairs[i].key)
                /\ ~isKeyRegistered(registry, in.pairs[i].key)
                /\ in.ans.reg[i] = "ok"
                /\ \A j \in 1 .. Len(in.pairs) : i /= j => in.pairs[i].key /= in.pairs[j].key
          /\ ~in.ans.probeErr
          /\ Stored.TotalStakeValue + in.callValue >= NodePrice \/ ownerIsSC
          /\ Len(Stored.BlsPubKeys) + Len(in.pairs)
                 > (Stored.TotalStakeValue + in.callValue) \div NodePrice

\* C16 as stated: an under-funded stake returns OutOfFunds, and the handler
\* has issued no register and no stake sub-call and saves no record.
UnderFundedStakeIssuesNothing ==
    [][UnderFundedStakeReturns =>
          /\ lastCall'.ret = OutOfFunds
          /\ ~HasCall(lastCall'.calls, "register")
          /\ ~HasCall(lastCall'.calls, "stake")
          /\ ~lastCall'.wrote
          /\ storage' = storage]_vars

\* C16: an under-funded stake returns OutOfFunds, the handler has issued no
\* stake sub-call, no record is saved, and the keys its register sub-calls
\* registered before the comparison are unknown to the Staking Registry again
\* once the call has returned.
UnderFundedStakeLeavesNothing ==
    [][UnderFundedStakeReturns =>
          /\ lastCall'.ret = OutOfFunds
          /\ ~HasCall(lastCall'.calls, "stake")
          /\ storage' = storage
          /\ registry' = registry]_vars

NumCalls(calls, command) == Cardinality({i \in 1 .. Len(calls) : calls[i][1] = command})

\* a well-formed stake call returns: the caller has no record, the call value
\* is n node prices for n validly signed, distinct keys unknown to the Staking
\* Registry, and every probe, register and stake sub-call succeeds
HappyStakeReturns ==
    /\ pc = "idle"
    /\ pc' = "returned"
    /\ lastCall'.fn = "stake"
    /\ nonce = 0 \/ flagEnableStaking
    /\ storage = <<>>
    /\ LET in == lastCall'.in
       IN /\ in.hasArgs
          /\ in.maxNodes > 0
          /\ in.maxNodes = Len(in.pairs)
          /\ in.gas >= GasUnit * in.maxNodes
          /\ in.callValue = NodePrice * Len(in.pairs)
          /\ \A i \in 1 .. Len(in.pairs) :
                /\ in.pairs[i].sigOk
                /\ ~isKeyRegistered(registry, in.pairs[i].key)
                /\ in.ans.reg[i] = "ok"
                /\ in.ans.stake[i] = "ok"
                /\ \A j \in 1 .. Len(in.pairs) : i /= j => in.pairs[i].key /= in.pairs[j].key
          /\ ~in.ans.probeErr

\* C17: happy stake. Such a call returns Ok, issues exactly n register and n
\* stake sub-calls and saves a record with TotalStakeValue = LockedStake =
\* n * NodePrice, NumRegistered = n and the n keys in argument order.
HappyStake ==
    [][HappyStakeReturns =>
          LET in == lastCall'.in
              n == Len(in.pairs)
          IN /\ lastCall'.ret = Ok
             /\ NumCalls(lastCall'.calls, "register") = n
             /\ NumCalls(lastCall'.calls, "stake") = n
             /\ storage' /= <<>>
             /\ storage'[1].TotalStakeValue = n * NodePrice
             /\ storage'[1].LockedStake = n * NodePrice
             /\ storage'[1].NumRegistered = n
             /\ storage'[1].BlsPubKeys = [i \in 1 .. n |-> in.pairs[i].key]]_vars

Max(a, b) == IF a > b THEN a ELSE b

\* a well-formed claim call of a registered caller returns while the top-up
\* flag is unset
ClaimReturns ==
    /\ pc = "idle"
    /\ pc' = "returned"
    /\ lastCall'.fn = "claim"
    /\ ~flagEnableTopUp
    /\ lastCall'.in.callValue = 0
    /\ lastCall'.in.gas >= GasUnit
    /\ Stored.RewardAddress /= ""

\* C18: claim before the top-up era. Such a call returns Ok, transfers
\* max(0, TotalStakeValue - LockedStake) and leaves TotalStakeValue =
\* min(TotalStakeValue, LockedStake) with LockedStake, NumRegistered and
\* BlsPubKeys as they were; a claim right after an Ok claim transfers nothing.
ClaimPaysUnlockedStake ==
    [][ClaimReturns =>
          /\ lastCall'.ret = Ok
          /\ lastCall'.transfer = Max(0, Stored.TotalStakeValue - Stored.LockedStake)
          /\ storage' /= <<>>
          /\ storage'[1].TotalStakeValue = Min(Stored.TotalStakeValue, Stored.LockedStake)
          /\ storage'[1].LockedStake = Stored.LockedStake
          /\ storage'[1].NumRegistered = Stored.NumRegistered
          /\ storage'[1].BlsPubKeys = Stored.BlsPubKeys
          /\ prevClaim /= <<>> => lastCall'.transfer = 0]_vars

TopUpFunctions ==
    {"unStakeNodes", "unBondNodes", "unStakeTokens", "unBondTokens", "pauseUnStakeUnBond",
     "unPauseUnStakeUnBond", "getTotalStakedTopUpBlsKeys", "updateStakingV2"}

\* C19: top-up gating. While the top-up flag is unset, unStakeNodes,
\* unBondNodes, unStakeTokens, unBondTokens, pauseUnStakeUnBond, the unpause
\* handler, getTotalStakedTopUpBlsKeys and updateStakingV2 return UserError,
\* change no storage, issue no sub-call and transfer nothing; while it is set,
\* claim returns UserError, transfers nothing and leaves the record.
TopUpGating ==
    [][(/\ pc = "idle"
        /\ pc' = "returned"
        /\ \/ ~flagEnableTopUp /\ lastCall'.fn \in TopUpFunctions
           \/ flagEnableTopUp /\ lastCall'.fn = "claim") =>
          /\ lastCall'.ret = UserError
          /\ lastCall'.calls = <<>>
          /\ lastCall'.transfer = 0
          /\ ~lastCall'.wrote
          /\ storage' = storage
          /\ pauseByte' = pauseByte
          /\ registry' = registry]_vars

\* the three flags are what the epoch last delivered makes them
FlagsMatchEpoch ==
    /\ flagEnableStaking = (epoch >= EnableStakingEpoch)
    /\ flagEnableTopUp = (epoch >= StakingV2Epoch)
    /\ flagDoubleKey = (epoch >= EnableDoubleKeyEpoch)

\* C20: after any sequence of epochConfirmed notifications the three flags
\* depend only on the last epoch delivered, and a notification of the same
\* epoch again leaves the three flags as they are.
FlagsFollowLastEpoch ==
    [][/\ FlagsMatchEpoch'
       /\ epoch' = epoch =>
             /\ flagEnableStaking' = flagEnableStaking
             /\ flagEnableTopUp' = flagEnableTopUp
             /\ flagDoubleKey' = flagDoubleKey]_vars

\* the (key, failed) pairs of the keys the Staking Registry refused
RECURSIVE FailedPairs(_, _)
FailedPairs(keys, ans) ==
    IF keys = <<>> THEN <<>>
    ELSE (IF Head(ans) = "ok" THEN <<>> ELSE <<<<Head(keys), failed>>>>)
         \o FailedPairs(Tail(keys), Tail(ans))

UnJailReturns ==
    /\ pc = "idle"
    /\ pc' = "returned"
    /\ lastCall'.fn = "unJail"

\* C14: unJail accounting in the staking-enabled era. When unJail returns Ok
\* for n keys of which f failed in the Staking Registry, UnJailPrice * f is
\* transferred back, unJailFunds grows by UnJailPrice * (n - f), the two add
\* up to the call value, every failed key is finished as (key, failed) and
\* every key gets its sub-call.
UnJailAccounting ==
    [][(UnJailReturns /\ flagEnableStaking /\ lastCall'.ret = Ok) =>
          LET n == Len(lastCall'.in.keys)
              f == Len(FailedPairs(lastCall'.in.keys, lastCall'.in.ans))
          IN /\ lastCall'.transfer = UnJailPrice * f
             /\ unJailFunds' - unJailFunds = UnJailPrice * (n - f)
             /\ lastCall'.in.callValue = lastCall'.transfer + (unJailFunds' - unJailFunds)
             /\ lastCall'.finish = FailedPairs(lastCall'.in.keys, lastCall'.in.ans)
             /\ lastCall'.calls = [i \in 1 .. n |-> <<"unJail", lastCall'.in.keys[i]>>]]_vars

\* C15: in both eras an unJail call whose call value is not UnJailPrice times
\* the number of keys returns UserError, issues no sub-call, transfers
\* nothing and leaves unJailFunds as it is.
UnJailWrongValueRefused ==
    [][(UnJailReturns
          /\ lastCall'.in.callValue /= UnJailPrice * Len(lastCall'.in.keys)) =>
          /\ lastCall'.ret = UserError
          /\ lastCall'.calls = <<>>
          /\ lastCall'.transfer = 0
          /\ unJailFunds' = unJailFunds]_vars

\* -------------------------------------------------------------- reachability
\* C16: stake with two fresh keys and a value of three, one and a half node
\* prices, has returned OutOfFunds after registering both keys
UnderFundedStakeReturned ==
    /\ pc = "returned"
    /\ lastCall.fn = "stake"
    /\ lastCall.ret = OutOfFunds
    /\ lastCall.in.callValue = 3
    /\ lastCall.before = <<>>
    /\ Len(lastCall.in.pairs) = 2
    /\ lastCall.calls = <<<<"get", "k1">>, <<"get", "k2">>,
                          <<"register", "k1">>, <<"register", "k2">>>>
    /\ storage = <<>>
    /\ registry = [k \in Keys |-> <<>>]

\* C17: a caller without record has staked two node prices with two keys
HappyStakeOfTwoReturned ==
    /\ ReturnedOk
    /\ lastCall.fn = "stake"
    /\ lastCall.before = <<>>
    /\ lastCall.in.callValue = 2 * NodePrice
    /\ Len(lastCall.in.pairs) = 2
    /\ lastCall.in.ans.stake = <<"ok", "ok">>
    /\ storage /= <<>>
    /\ storage[1].NumRegistered = 2
    /\ storage[1].BlsPubKeys = <<"k1", "k2">>

\* C18: claim has transferred the unlocked stake, and claim has returned Ok
\* again right after it
SecondClaimReturned ==
    /\ ReturnedOk
    /\ lastCall.fn = "claim"
    /\ lastCall.afterClaim /= <<>>
    /\ lastCall.afterClaim[1] > 0
    /\ storage /= <<>>
    /\ storage[1].LockedStake > 0

\* C19: before the top-up era unStakeTokens of a node price has been refused
\* to a caller whose record holds it
UnStakeTokensRefusedBeforeTopUp ==
    /\ pc = "returned"
    /\ ~flagEnableTopUp
    /\ lastCall.fn = "unStakeTokens"
    /\ lastCall.ret = UserError
    /\ lastCall.in.callValue = 0
    /\ lastCall.in.gas >= GasUnit
    /\ lastCall.in.args = <<NodePrice>>
    /\ Stored.TotalStakeValue >= NodePrice

\* C20: the notification of epoch 1 has followed the one of the top-up epoch,
\* in which unStake and unBond were paused: the top-up flag is unset again
EarlierEpochConfirmed ==
    /\ epoch = EnableStakingEpoch
    /\ epoch < StakingV2Epoch
    /\ pauseByte = <<1>>
    /\ flagEnableStaking
    /\ ~flagEnableTopUp

\* C14: unJail of two keys has returned Ok with the first key unjailed and the
\* second refused: one price is transferred back, one is in unJailFunds
UnJailPartlyRefunded ==
    /\ ReturnedOk
    /\ flagEnableStaking
    /\ lastCall.fn = "unJail"
    /\ lastCall.in.callValue = 2 * UnJailPrice
    /\ lastCall.in.ans = <<"ok", "failed">>
    /\ lastCall.finish = <<<<lastCall.in.keys[2], failed>>>>
    /\ lastCall.transfer = UnJailPrice
    /\ unJailFunds = UnJailPrice

\* C15: before the staking era unJail of two registered keys has been refused
\* for a call value of one price
UnJailUnderpaidRefused ==
    /\ pc = "returned"
    /\ ~flagEnableStaking
    /\ lastCall.fn = "unJail"
    /\ lastCall.ret = UserError
    /\ Len(lastCall.in.keys) = 2
    /\ lastCall.in.callValue = UnJailPrice
    /\ verifyBLSPublicKeys(Stored, lastCall.in.keys)

\* C13: the end-of-epoch address has paused unStake and unBond
PausedByEndOfEpoch ==
    /\ pc = "returned"
    /\ lastCall.fn = "pauseUnStakeUnBond"
    /\ lastCall.caller = EndOfEpochAddress
    /\ lastCall.ret = Ok
    /\ pauseByte = <<1>>

\* C11: unBondTokens(3) has used up a first entry of 2 and left 1 of a second
\* entry under its own nonce
SplitInsideSecondEntry ==
    /\ ReturnedOk
    /\ lastCall.fn = "unBondTokens"
    /\ lastCall.in.args = <<3>>
    /\ lastCall.transfer = 3
    /\ Len(lastCall.before[1].UnstakedInfo) = 2
    /\ lastCall.before[1].UnstakedInfo[1].UnstakedValue = 2
    /\ storage /= <<>>
    /\ Len(storage[1].UnstakedInfo) = 1
    /\ storage[1].UnstakedInfo[1].UnstakedValue = 1
    /\ storage[1].UnstakedInfo[1].UnstakedNonce = 1
    /\ nonce = 2

\* C4: unBondTokens with an amount has paid part of the unstaked funds and the
\* rest stays in the record
SplitUnBondReturned ==
    /\ ReturnedOk
    /\ lastCall.fn = "unBondTokens"
    /\ Len(lastCall.in.args) = 1
    /\ lastCall.transfer > 0
    /\ storage /= <<>>
    /\ storage[1].TotalUnstaked > 0

\* C5: in the top-up era unBond has unbonded one of two registered nodes
NodeUnBondedInTopUpEra ==
    /\ ReturnedOk
    /\ flagEnableTopUp
    /\ lastCall.fn = "unBond"
    /\ Len(lastCall.calls) > Len(lastCall.finish)
    /\ storage /= <<>>
    /\ storage[1].NumRegistered >= 1

\* C6: cleanRegisteredData has removed a repeated key from a record with a
\* registered node
RepeatedKeyCleaned ==
    /\ ReturnedOk
    /\ lastCall.fn = "cleanRegisteredData"
    /\ lastCall.wrote
    /\ storage[1].NumRegistered >= 1

\* C7: unBondV1 has refused to subtract more than the record holds
UnBondV1Refused ==
    /\ RefusedUnderflow
    /\ lastCall.fn = "unBond"

\* C10: unBondTokens without an amount has paid, and unBondTokens has
\* returned Ok again at the same nonce
SecondUnBondAfterDrainReturned ==
    /\ SecondUnBondTokensReturned
    /\ lastCall.ret = Ok
    /\ ~lastCall.after[1].withAmount
    /\ lastCall.after[1].transfer > 0

\* ------------------------------------------------------------ return codes
ReturnCodes == {Ok, UserError, OutOfGas, OutOfFunds}

\* C21: every call returns Ok, UserError, OutOfGas or OutOfFunds, whatever
\* the Staking Registry answers to the sub-calls
ReturnsOneOfFourCodes ==
    pc = "returned" => lastCall.ret \in ReturnCodes

\* C22: a changeRewardAddress call whose sub-call to the Staking Registry
\* fails, by a host error or by a return code other than Ok, returns UserError
FailedSubCallIsUserError ==
    (/\ pc = "returned"
     /\ lastCall.fn = "changeRewardAddress"
     /\ HasCall(lastCall.calls, "changeRewardAddress")
     /\ lastCall.in.ans # "ok") =>
        lastCall.ret = UserError

\* ----------------------------------------------------------- reward address
\* C23: a step that keeps a record whose RewardAddress is set leaves the
\* RewardAddress as it is, unless the step is a changeRewardAddress call
RewardAddressKept ==
    [][(/\ Len(storage) = 1
        /\ storage[1].RewardAddress # ""
        /\ Len(storage') = 1
        /\ ~(pc' = "returned" /\ lastCall'.fn = "changeRewardAddress")) =>
            storage'[1].RewardAddress = storage[1].RewardAddress]_vars

\* C23: a stake call naming another reward address has returned Ok on a
\* record that was registered before the call
StakeWithRewardAddressOnRegistered ==
    /\ ReturnedOk
    /\ lastCall.fn = "stake"
    /\ Len(lastCall.before) = 1
    /\ lastCall.before[1].RewardAddress # ""
    /\ \E i \in 1 .. Len(lastCall.in.opt) :
          /\ lastCall.in.opt[i].isAddress
          /\ lastCall.in.opt[i].value # lastCall.before[1].RewardAddress
    /\ lastCall.wrote

\* ------------------------------------------------------------ unStakeTokens
\* an unStakeTokens call with one argument, no call value and enough gas has
\* returned to a registered caller in the top-up era, not paused
UnStakeTokensReturns ==
    /\ pc = "returned"
    /\ lastCall.fn = "unStakeTokens"
    /\ flagEnableTopUp
    /\ ~isUnStakeUnBondPaused(pauseByte)
    /\ Len(lastCall.before) = 1
    /\ lastCall.before[1].RewardAddress # ""
    /\ lastCall.in.callValue = 0
    /\ lastCall.in.gas >= GasUnit
    /\ Len(lastCall.in.args) = 1

\* C24: unStakeTokens(amount) returns Ok exactly when amount is at most
\* TotalStakeValue and is either at least minUnstakeTokensValue or the whole
\* TotalStakeValue; on Ok it moves amount from TotalStakeValue to
\* TotalUnstaked, appends the entry (currentNonce, amount) and transfers
\* nothing; otherwise it returns UserError and leaves the record as it was
UnStakeTokensContract ==
    UnStakeTokensReturns =>
        LET rd == lastCall.before[1]
            amount == lastCall.in.args[1]
            accepted == /\ amount <= rd.TotalStakeValue
                        /\ (amount >= MinUnstakeTokensValue \/ amount = rd.TotalStakeValue)
        IN /\ lastCall.ret = IF accepted THEN Ok ELSE UserError
           /\ lastCall.transfer = 0
           /\ lastCall.calls = <<>>
           /\ storage =
                 IF accepted
                 THEN <<[rd EXCEPT !.TotalStakeValue = @ - amount,
                                   !.TotalUnstaked = @ + amount,
                                   !.UnstakedInfo = Append(@,
                                       [UnstakedNonce |-> nonce,
                                        UnstakedValue |-> amount])]>>
                 ELSE lastCall.before

\* C24: unStakeTokens has returned Ok for an amount below minUnstakeTokensValue
\* that was the whole TotalStakeValue, after an earlier entry
RestBelowMinimumUnStaked ==
    /\ UnStakeTokensReturns
    /\ lastCall.ret = Ok
    /\ lastCall.in.args[1] > 0
    /\ lastCall.in.args[1] < MinUnstakeTokensValue
    /\ Len(lastCall.before[1].UnstakedInfo) = 1

\* C25: an unStakeTokens call that returns Ok on a record whose TotalStakeValue
\* covers NodePrice for every registered node leaves a TotalStakeValue that
\* still covers them: only the top-up is moved into UnstakedInfo
TokenUnStakeKeepsNodeStake ==
    (/\ UnStakeTokensReturns
     /\ lastCall.ret = Ok
     /\ lastCall.before[1].TotalStakeValue >= NodePrice * lastCall.before[1].NumRegistered) =>
        Stored.TotalStakeValue >= NodePrice * Stored.NumRegistered

\* -------------------------------------------------------------------- views
\* C26: the top-up that getTotalStakedTopUpBlsKeys emits first when it returns
\* Ok is not negative; where TotalStakeValue is below NodePrice x NumRegistered
\* the view returns UserError
TopUpViewNeverNegative ==
    (/\ pc = "returned"
     /\ lastCall.fn = "getTotalStakedTopUpBlsKeys") =>
        /\ lastCall.ret = Ok => lastCall.finish[1] >= 0
        /\ (/\ flagEnableTopUp
            /\ lastCall.in.callValue = 0
            /\ lastCall.in.gas >= GasUnit
            /\ Stored.RewardAddress # ""
            /\ Stored.TotalStakeValue < NodePrice * Stored.NumRegistered) =>
                lastCall.ret = UserError

\* ------------------------------------------------------------------ unStake
\* an unStake call has returned that passed the pause test and the checks of
\* basicChecksForUnStakeNodes, the Staking Registry refusing one key or more
UnStakeWithFailuresReturns ==
    /\ pc = "returned"
    /\ lastCall.fn = "unStake"
    /\ ~isUnStakeUnBondPaused(pauseByte)
    /\ lastCall.in.callValue = 0
    /\ Len(lastCall.in.keys) > 0
    /\ flagEnableStaking
    /\ lastCall.in.gas >= GasUnit * Len(lastCall.in.keys)
    /\ verifyBLSPublicKeys(getOrCreateRegistrationData(lastCall.before), lastCall.in.keys)
    /\ \E i \in 1 .. Len(lastCall.in.keys) : lastCall.in.ans[i] # "ok"

\* C27: in both eras such a call emits (key, failed) for each refused key,
\* issues the unStake sub-call for every key and returns Ok
UnStakeFailuresAreSoft ==
    UnStakeWithFailuresReturns =>
        /\ lastCall.ret = Ok
        /\ lastCall.finish = FailedPairs(lastCall.in.keys, lastCall.in.ans)
        /\ lastCall.calls = [i \in 1 .. Len(lastCall.in.keys) |->
                                <<"unStake", lastCall.in.keys[i]>>]

\* ------------------------------------------------------ cleanRegisteredData
\* the position of the first occurrence of a key
FirstIndex(keys, key) ==
    CHOOSE i \in 1 .. Len(keys) : keys[i] = key /\ \A j \in 1 .. i - 1 : keys[j] # key

\* newList holds the keys of blsPubKeys once each, in the order in which they
\* first occur in blsPubKeys
IsFirstOccurrenceList(newList, blsPubKeys) ==
    /\ \A p, q \in 1 .. Len(newList) : p # q => newList[p] # newList[q]
    /\ {newList[p] : p \in 1 .. Len(newList)} = {blsPubKeys[i] : i \in 1 .. Len(blsPubKeys)}
    /\ \A p, q \in 1 .. Len(newList) :
          p < q => FirstIndex(blsPubKeys, newList[p]) < FirstIndex(blsPubKeys, newList[q])

\* a cleanRegisteredData call without call value or arguments and with enough
\* gas has returned in the double-key era
CleanReturns ==
    /\ pc = "returned"
    /\ lastCall.fn = "cleanRegisteredData"
    /\ flagDoubleKey
    /\ lastCall.in.callValue = 0
    /\ lastCall.in.numArgs = 0
    /\ lastCall.in.gas >= GasUnit

\* C28: cleanRegisteredData leaves BlsPubKeys as the list of its distinct keys
\* in order of first occurrence and every other field of the record as it
\* was; called again it leaves the storage as it is
CleanIsDedupeAndFixedPoint ==
    CleanReturns =>
        /\ lastCall.ret = Ok
        /\ Len(storage) = Len(lastCall.before)
        /\ Len(storage) = 1 =>
              /\ IsFirstOccurrenceList(storage[1].BlsPubKeys, lastCall.before[1].BlsPubKeys)
              /\ [storage[1] EXCEPT !.BlsPubKeys = lastCall.before[1].BlsPubKeys]
                     = lastCall.before[1]
        /\ cleanRegisteredData(lastCall.in).ret = Ok
        /\ cleanRegisteredData(lastCall.in).storage = storage

\* C28: cleanRegisteredData has returned on a record of three keys whose first
\* key was repeated after another key
KeyRepeatedAfterAnotherCleaned ==
    /\ CleanReturns
    /\ Len(lastCall.before) = 1
    /\ Len(lastCall.before[1].BlsPubKeys) = 3
    /\ lastCall.before[1].BlsPubKeys[1] # lastCall.before[1].BlsPubKeys[2]
    /\ lastCall.before[1].BlsPubKeys[1] = lastCall.before[1].BlsPubKeys[3]
    /\ Len(storage[1].BlsPubKeys) = 2

\* --------------------------------------------------------- overlapping calls
\* the charges of one call were all made at the same gas cost
ChargedAtOneCost(call) ==
    \A i, j \in 1 .. Len(call.charged) : call.charged[i] = call.charged[j]

\* C29: the gas-cost table changes only while no Execute call is in progress,
\* and all the charges of one Execute call are made at the same gas cost
GasCostFixedDuringExecute ==
    [][/\ gasCost' # gasCost => mutExecution.readers = {}
       /\ \A t \in Threads : ChargedAtOneCost(executing'[t])]_vars

\* C29: two Execute calls are in progress at the same time, a stake call having
\* made both its charges at a gas cost that SetNewGasCost installed
TwoCallsInProgress ==
    /\ mutExecution.readers = Threads
    /\ gasCost # GasUnit
    /\ \E t \in Threads :
          /\ executing[t].fn = "stake"
          /\ Len(executing[t].charged) = 2
          /\ executing[t].charged[1] = gasCost
    /\ \E t \in Threads : executing[t].fn = "unStake" /\ Len(executing[t].charged) = 1

\* C30: the three flags do not change while an Execute call is in progress
FlagsFixedDuringExecute ==
    [][mutExecution.readers # {} =>
          /\ flagEnableStaking' = flagEnableStaking
          /\ flagEnableTopUp' = flagEnableTopUp
          /\ flagDoubleKey' = flagDoubleKey]_vars

\* ------------------------------------------------- unBond before the top-up
\* the number of places of seq that hold x
CountIn(seq, x) == Cardinality({i \in 1 .. Len(seq) : seq[i] = x})

\* the number of times the Staking Registry unbonded key in the call in
UnBondedTimes(in, key) ==
    Cardinality({i \in 1 .. Len(in.keys) : in.keys[i] = key /\ in.ans[i] = "ok"})

\* a step in which unBond returns before the top-up era, its arguments having
\* passed checkUnBondArguments
UnBondV1Returns ==
    /\ pc = "idle"
    /\ pc' = "returned"
    /\ lastCall'.fn = "unBond"
    /\ ~flagEnableTopUp
    /\ checkUnBondArguments(lastCall'.in) = Ok

\* C32: unBond before the top-up era, with s keys unbonded in the Staking
\* Registry, returns Ok exactly when LockedStake >= NodePrice * s,
\* NumRegistered >= s and TotalStakeValue >= NodePrice * s. On Ok it takes
\* NodePrice * s from LockedStake and TotalStakeValue and s from NumRegistered,
\* removes the s unbonded keys from BlsPubKeys (one place of a key for each
\* time the registry unbonded it, as far as the key has places), or deletes the
\* record when both amounts reach zero, and transfers NodePrice * s to the
\* caller. Otherwise it returns UserError, saves nothing and transfers nothing.
UnBondV1Contract ==
    [][UnBondV1Returns =>
          LET s == Len(lastCall'.calls) - Len(lastCall'.finish)
              enough == /\ Stored.LockedStake >= NodePrice * s
                        /\ Stored.NumRegistered >= s
                        /\ Stored.TotalStakeValue >= NodePrice * s
          IN /\ lastCall'.ret = (IF enough THEN Ok ELSE UserError)
             /\ lastCall'.ret = Ok =>
                   /\ lastCall'.transfer = NodePrice * s
                   /\ IF /\ Stored.LockedStake = NodePrice * s
                         /\ Stored.TotalStakeValue = NodePrice * s
                      THEN storage' = <<>>
                      ELSE /\ storage' /= <<>>
                           /\ storage'[1].LockedStake = Stored.LockedStake - NodePrice * s
                           /\ storage'[1].TotalStakeValue
                                  = Stored.TotalStakeValue - NodePrice * s
                           /\ storage'[1].NumRegistered = Stored.NumRegistered - s
                           /\ \A k \in Keys :
                                 CountIn(storage'[1].BlsPubKeys, k)
                                     = Max(0, CountIn(Stored.BlsPubKeys, k)
                                                 - UnBondedTimes(lastCall'.in, k))
             /\ lastCall'.ret /= Ok =>
                   /\ storage' = storage
                   /\ lastCall'.transfer = 0
                   /\ ~lastCall'.wrote]_vars

\* C32: unBond before the top-up era has unbonded a key, paid its price and
\* kept the record with the key removed
UnBondV1PaidAndKept ==
    /\ ReturnedOk
    /\ lastCall.fn = "unBond"
    /\ ~flagEnableTopUp
    /\ Len(lastCall.calls) > Len(lastCall.finish)
    /\ lastCall.transfer = NodePrice * (Len(lastCall.calls) - Len(lastCall.finish))
    /\ storage /= <<>>
    /\ Len(storage[1].BlsPubKeys) < Len(lastCall.before[1].BlsPubKeys)

\* ------------------------------------------------------ key ownership in stake
\* the keys of the first maxNodes pairs whose signature verifies
VerifiedKeys(in) ==
    {in.pairs[i].key : i \in {j \in 1 .. Min(in.maxNodes, Len(in.pairs)) : in.pairs[j].sigOk}}

\* a stake call with arguments that passes every check made before
\* registerBLSKeys is called
ReachesRegisterBLSKeys(in) ==
    /\ in.gas >= GasUnit
    /\ nonce = 0 \/ flagEnableStaking
    /\ Stored.TotalStakeValue + in.callValue >= NodePrice \/ ownerIsSC
    /\ in.hasArgs
    /\ isNumArgsCorrectToStake(in)
    /\ in.maxNodes > 0
    /\ in.gas - GasUnit >= (in.maxNodes - 1) * GasUnit

\* a verified key that is not in the caller's BlsPubKeys and that the
\* existence probe reports as registered, or whose probe fails
ProbeRefuses(in) ==
    \E k \in VerifiedKeys(in) :
        /\ ~Contains(Stored.BlsPubKeys, k)
        /\ in.ans.probeErr \/ Len(registry[k]) > 0

StakeReturns ==
    /\ pc = "idle"
    /\ pc' = "returned"
    /\ lastCall'.fn = "stake"

\* C33: a stake call in which the existence probe of the Staking Registry
\* reports a key that is not in the caller's BlsPubKeys as already registered,
\* or fails, returns UserError before any register or stake sub-call and saves
\* nothing.
ForeignKeyRefused ==
    [][(/\ StakeReturns
        /\ ReachesRegisterBLSKeys(lastCall'.in)
        /\ ProbeRefuses(lastCall'.in)) =>
          /\ lastCall'.ret = UserError
          /\ \A i \in 1 .. Len(lastCall'.calls) : lastCall'.calls[i][1] = "get"
          /\ ~lastCall'.wrote
          /\ storage' = storage
          /\ registry' = registry]_vars

\* C33: stake has been refused for a key that is registered in the Staking
\* Registry and is not in the caller's BlsPubKeys, after the probe of that key
ForeignKeyProbed ==
    /\ pc = "returned"
    /\ lastCall.fn = "stake"
    /\ lastCall.ret = UserError
    /\ ~lastCall.in.ans.probeErr
    /\ Len(lastCall.calls) >= 1
    /\ LET probed == lastCall.calls[Len(lastCall.calls)]
       IN /\ probed[1] = "get"
          /\ Len(registry[probed[2]]) > 0
          /\ ~Contains(Stored.BlsPubKeys, probed[2])

\* ------------------------------------------------------ double-key protection
\* the keys of the first maxNodes pairs whose signature verifies, in the order
\* of the arguments
VerifiedKeyList(in) ==
    getVerifiedBLSKeysFromArgs(SubSeq(in.pairs, 1, Min(in.maxNodes, Len(in.pairs)))).blsKeys

HasRepeatedKey(keys) == \E i, j \in 1 .. Len(keys) : i /= j /\ keys[i] = keys[j]

\* C34: while the double-key flag is set, a stake call whose signature-verified
\* keys contain the same key twice returns UserError and saves nothing, and no
\* stake call adds a key to BlsPubKeys that the list then holds twice.
DoubleKeyRefused ==
    [][(StakeReturns /\ flagDoubleKey /\ ReachesRegisterBLSKeys(lastCall'.in)) =>
          /\ HasRepeatedKey(VerifiedKeyList(lastCall'.in)) =>
                /\ lastCall'.ret = UserError
                /\ ~lastCall'.wrote
                /\ storage' = storage
          /\ \A k \in Keys :
                CountIn(getOrCreateRegistrationData(storage').BlsPubKeys, k)
                    > CountIn(Stored.BlsPubKeys, k)
                => CountIn(getOrCreateRegistrationData(storage').BlsPubKeys, k) = 1]_vars

\* ------------------------------------------------------- the UnstakedInfo list
\* C35: while the nonce of the host never decreases, the UnstakedNonce of the
\* entries of a stored record never decreases from the first entry to the
\* last, whatever unStake, unStakeTokens, unBond and unBondTokens calls were
\* made, a split of an entry included.
UnstakedNoncesOrdered ==
    storage /= <<>> =>
        \A i, j \in 1 .. Len(storage[1].UnstakedInfo) :
            i < j => storage[1].UnstakedInfo[i].UnstakedNonce
                         <= storage[1].UnstakedInfo[j].UnstakedNonce

\* C35: an entry has been split in front of an entry of a later nonce
EntrySplitBeforeLaterEntry ==
    /\ ReturnedOk
    /\ lastCall.fn \in {"unBond", "unBondTokens"}
    /\ lastCall.transfer > 0
    /\ Len(lastCall.before) = 1
    /\ storage /= <<>>
    /\ Len(storage[1].UnstakedInfo) = 2
    /\ Len(lastCall.before[1].UnstakedInfo) = 2
    /\ storage[1].UnstakedInfo[1].UnstakedValue
           < lastCall.before[1].UnstakedInfo[1].UnstakedValue
    /\ storage[1].UnstakedInfo[1].UnstakedNonce < storage[1].UnstakedInfo[2].UnstakedNonce

\* ------------------------------------------------------- stake with arguments
\* the keys that a stake call has newly counted: not staked, not waiting and
\* never unstaked in the Staking Registry before the call, staked or waiting
\* after it by a stake sub-call of the call
NewlyStaked(calls) ==
    {k \in Keys :
        /\ \E i \in 1 .. Len(calls) : calls[i] = <<"stake", k>>
        /\ ~getStakedData(registry, k).Staked
        /\ ~getStakedData(registry, k).Waiting
        /\ getStakedData(registry, k).UnStakedNonce = 0
        /\ getStakedData(registry', k).Staked \/ getStakedData(registry', k).Waiting}

\* C36: after a stake call with arguments returns Ok the saved record has at
\* most floor(TotalStakeValue / NodePrice) keys and NodePrice * NumRegistered
\* is at most TotalStakeValue, and NumRegistered has grown by no more than the
\* number of keys whose stake sub-call succeeded and that the Staking Registry
\* held neither staked nor waiting nor unstaked before the call.
StakeWithinFunds ==
    [][(StakeReturns /\ lastCall'.ret = Ok /\ lastCall'.in.hasArgs) =>
          /\ storage' /= <<>>
          /\ Len(storage'[1].BlsPubKeys) <= storage'[1].TotalStakeValue \div NodePrice
          /\ NodePrice * storage'[1].NumRegistered <= storage'[1].TotalStakeValue
          /\ storage'[1].NumRegistered - Stored.NumRegistered
                 <= Cardinality(NewlyStaked(lastCall'.calls))
          /\ storage'[1].NumRegistered >= Stored.NumRegistered]_vars

\* C36: a stake call has staked again a key that had been unstaked, and
\* NumRegistered has not grown
UnstakedKeyStakedAgain ==
    /\ ReturnedOk
    /\ lastCall.fn = "stake"
    /\ lastCall.in.hasArgs
    /\ Len(lastCall.before) = 1
    /\ storage[1].NumRegistered = lastCall.before[1].NumRegistered
    /\ \E k \in Keys :
          /\ \E i \in 1 .. Len(lastCall.calls) : lastCall.calls[i] = <<"stake", k>>
          /\ getStakedData(registry, k).Staked
          /\ getStakedData(registry, k).UnStakedNonce /= 0

\* --------------------------------------------------- top-up-era unBond payout
\* a step in which unBond returns Ok in the top-up era
TopUpUnBondReturnsOk ==
    /\ pc = "idle"
    /\ pc' = "returned"
    /\ lastCall'.fn = "unBond"
    /\ lastCall'.ret = Ok
    /\ flagEnableTopUp

\* C37: an unBond call of the top-up era that returns Ok with s keys unbonded
\* in the Staking Registry transfers at most NodePrice * s to the caller; with
\* no key unbonded it transfers nothing and leaves UnstakedInfo and
\* TotalUnstaked as they were.
UnBondPaysAtMostNodes ==
    [][TopUpUnBondReturnsOk =>
          LET s == Len(lastCall'.calls) - Len(lastCall'.finish)
          IN /\ lastCall'.transfer <= NodePrice * s
             /\ s = 0 =>
                   /\ lastCall'.transfer = 0
                   /\ getOrCreateRegistrationData(storage').UnstakedInfo
                          = Stored.UnstakedInfo
                   /\ getOrCreateRegistrationData(storage').TotalUnstaked
                          = Stored.TotalUnstaked]_vars

\* C38: every entry of the UnstakedInfo list of a stored record has a value
\* greater than zero: unStake and unStakeTokens append no entry of value zero
\* and a split leaves none.
UnstakedValuesPositive ==
    storage /= <<>> =>
        \A i \in 1 .. Len(storage[1].UnstakedInfo) :
            storage[1].UnstakedInfo[i].UnstakedValue > 0

\* ------------------------------------------------------- the hardfork storer
\* the keys of a list of Write calls, and whether the store took every pair
WrittenKeys(writes) == [i \in 1 .. Len(writes) |-> writes[i].key]
AllStored(writes) == \A i \in 1 .. Len(writes) : writes[i].stored

\* thread t is about to return nil from FinishedIdentifier
FinishedReturnsNil(t) ==
    /\ storing[t].op = "FinishedIdentifier"
    /\ storing[t].at = "done"
    /\ storing[t].err = "nil"

\* the keys RangeKeys hands over for the identifier
PublishedKeys(id) == CHOOSE keys \in {pair[2] : pair \in {p \in RangeKeys(keysStore) : p[1] = id}} : TRUE

\* C31 as stated: after successful Write calls of concurrent callers, a
\* successful FinishedIdentifier(id) leaves in the keys store, under id, the
\* batch of exactly the keys written for id since the previous
\* FinishedIdentifier(id), in the order in which the writes took the lock, and
\* no pending key for id in memory; with no pending key it writes nothing.
PublishesWritesSincePrevious ==
    \A t \in Threads :
       FinishedReturnsNil(t) =>
          LET id == storing[t].id
          IN IF storing[t].vals = <<>>
             THEN keysStore = storing[t].before
             ELSE AllStored(sincePrevious[id]) =>
                     /\ keysStore[id] /= <<>>
                     /\ PublishedKeys(id) = WrittenKeys(sincePrevious[id])
                     /\ hsKeys[id] = <<>>

\* C31, amended: the batch holds exactly the keys written for id since the
\* pending keys of id were last deleted, that is since the previous
\* FinishedIdentifier(id) that got past the marshalizer.
PublishesWritesSinceReleased ==
    \A t \in Threads :
       FinishedReturnsNil(t) =>
          LET id == storing[t].id
          IN IF storing[t].vals = <<>>
             THEN keysStore = storing[t].before
             ELSE AllStored(sinceReleased[id]) =>
                     /\ keysStore[id] /= <<>>
                     /\ PublishedKeys(id) = WrittenKeys(sinceReleased[id])
                     /\ hsKeys[id] = <<>>

\* C31: FinishedIdentifier returns nil having published two different keys in
\* the order in which their Write calls took the lock
TwoKeysPublishedInOrder ==
    \E t \in Threads :
       /\ FinishedReturnsNil(t)
       /\ Len(sinceReleased[storing[t].id]) = 2
       /\ AllStored(sinceReleased[storing[t].id])
       /\ sinceReleased[storing[t].id][1].key /= sinceReleased[storing[t].id][2].key
       /\ keysStore[storing[t].id] /= <<>>
       /\ PublishedKeys(storing[t].id) = WrittenKeys(sinceReleased[storing[t].id])

\* C39: a Write call that returns an error because the key-value store
\* rejected the pair leaves the pending keys of its identifier as they were,
\* and FinishedIdentifier publishes no key that has no value in the store.
RejectedKeyNotRecorded ==
    \A t \in Threads :
       /\ (storing[t].op = "Write" /\ storing[t].at = "done" /\ storing[t].err /= "nil")
             => hsKeys[storing[t].id] = storing[t].before
       /\ (FinishedReturnsNil(t) /\ storing[t].vals /= <<>>)
             => \A i \in 1 .. Len(storing[t].vals) : keyValue[storing[t].vals[i]] /= <<>>

\* -------------------------------------------- the ESDT freeze / wipe built-in
\* the entry of the account under a token key is marked Frozen
EntryFrozen(entry) ==
    entry /= <<>> /\ ESDTUserMetadataFromBytes(entry[1].Properties).Frozen

\* C40: a wipe call removes the token entry of the destination account only
\* if the entry is marked Frozen; a wipe call that reads an entry that is not
\* frozen returns ErrCannotWipeAccountNotFrozen and leaves the entry as it
\* was; and a token entry disappears only in a wipe call made while the last
\* freeze / un-freeze call on the token was a freeze.
WipeRequiresFrozen ==
    [][\A tok \in Tokens :
          /\ (esdtData[tok] /= <<>> /\ esdtData'[tok] = <<>>) =>
                 /\ lastBuiltin'.fn = "wipe" /\ lastBuiltin'.token = tok
                 /\ EntryFrozen(esdtData[tok])
                 /\ lastToggle[tok] = "freeze"
          /\ (/\ lastBuiltin'.fn = "wipe" /\ lastBuiltin'.token = tok
              /\ lastBuiltin'.valid /\ lastBuiltin'.read
              /\ ~EntryFrozen(esdtData[tok])) =>
                 /\ lastBuiltin'.err = "ErrCannotWipeAccountNotFrozen"
                 /\ esdtData'[tok] = esdtData[tok]]_vars

\* C40: a wipe call has removed an entry that held tokens and was frozen by
\* the last freeze / un-freeze call, while the other token, whose last such
\* call was an un-freeze, is still held
FrozenEntryWiped ==
    \E tok \in Tokens, other \in Tokens :
       /\ lastBuiltin.fn = "wipe" /\ lastBuiltin.token = tok /\ lastBuiltin.err = "nil"
       /\ EntryFrozen(lastBuiltin.before) /\ lastBuiltin.before[1].Value = 1
       /\ esdtData[tok] = <<>>
       /\ lastToggle[tok] = "freeze"
       /\ other /= tok /\ lastToggle[other] = "unFreeze" /\ esdtData[other] /= <<>>

====
